---- MODULE Spec2Model ----
(***************************************************************************)
(* A model of the regrid-and-checkpoint orchestration engine (class        *)
(* driver) of chombo-discharge.                                            *)
(*                                                                         *)
(* Six specifications share the variables below:                           *)
(*   Spec        driver::setup_and_run: the initial regrids of setup, then *)
(*               the time loop driver::run                                 *)
(*   SpecRegrid  the pipeline driver::regrid, executed by every process    *)
(*               of the SPMD job                                           *)
(*   SpecChk     driver::write_checkpoint_file followed by a restart       *)
(*               through driver::read_checkpoint_file                      *)
(*   SpecTags    the tags on the cells: the geometric tags of setup_fresh  *)
(*               and one regrid call (tag_cells, cache_tags, the mesh      *)
(*               rebuild, regrid_internals) for all processes at once      *)
(*   SpecTermination  the time loop as in Spec from the end of setup on,   *)
(*               with the fairness that lets its termination be stated     *)
(*   SpecDirs    driver::parse_output_directory on every process           *)
(*                                                                         *)
(* Real quantities (time, dt, dx) are modelled as integers in one fixed    *)
(* unit, so that sums and comparisons are exact.  The build modelled has   *)
(* CH_USE_HDF5 and CH_MPI defined.                                         *)
(***************************************************************************)
EXTENDS Integers, Sequences, FiniteSets, TLC

\* ------------------------------------------------------------------------
\* Program constants
\* ------------------------------------------------------------------------

\* driver::run compares m_dt with 1.0E-5*init_dt, and Abs(m_time - a_end_time)
\* with m_dt*1.E-5: the fraction is 1/StallFactor.
StallFactor == 100000

\* write_checkpoint_level stores 1.0 for a tagged cell and 0.0 for any other;
\* read_checkpoint_level takes a value above 0.9999 as tagged.  Unit: 1/10000.
TagOne == 10000

TagThreshold == 9999

\* ------------------------------------------------------------------------
\* Bounds of the model
\* ------------------------------------------------------------------------

\* Deepest AMR level of the configurations explored
MaxDepth == 2
\* Largest a_max_steps
MaxSteps == 3
\* Time steps proposed by the time stepper are 0, 1, k*StallFactor for k <= MaxDtUnits,
\* and MaxDtUnits*StallFactor + 1
MaxDtUnits == 1
\* Largest regrid/plot/checkpoint interval
MaxInterval == 2
\* Number of processes of the SPMD job
NProcs == 2
\* Number of consecutive regrid calls explored in SpecRegrid
MaxCalls == 1
\* Largest coarsest-level spacing
MaxDx == 2
\* Largest driver.initial_regrids
MaxInitRegrids == 1

VARIABLES
  \* ---- driver state shared by all specifications
  m_time,              \* driver::m_time
  m_dt,                \* driver::m_dt
  m_step,              \* driver::m_step
  finest_level,        \* m_amr->get_finest_level()
  max_amr_depth,       \* m_amr->get_max_amr_depth()
  max_sim_depth,       \* m_amr->get_max_sim_depth()
  pc,                  \* position of the control flow (of the job, or per process)
  \* ---- driver::run
  a_end_time,          \* argument of run
  a_max_steps,         \* argument of run
  m_restart,           \* driver::m_restart
  m_regrid_interval,   \* driver::m_regrid_interval
  m_recursive_regrid,  \* driver::m_recursive_regrid
  m_plot_interval,     \* driver::m_plot_interval
  m_chk_interval,      \* driver::m_chk_interval
  last_step,           \* local of run
  first_step,          \* local of run
  init_dt,             \* local of run
  need_regrid,         \* answer of m_timestepper->need_to_regrid() in this iteration
  iter,                \* record of the values at the top of the current iteration
  events,              \* calls made so far in the current iteration, in order
  ts_sync,             \* last arguments of m_timestepper->synchronize_solver_times
  init_regrids_left,   \* iterations the initial-regrid loop of setup has still to make
  advances,            \* m_step at the entry of the loop of run, and the advance calls completed since
  \* ---- driver::regrid, per process
  has_tagger,          \* !m_celltagger.isNull()
  calls,               \* arguments (lmin, lmax, use_initial_data, finest level at entry) of the regrid calls made
  ncalls,              \* per process: number of regrid calls entered
  rpc,                 \* per process: position inside regrid
  stages,              \* per process: the calls made by the current regrid call, in order
  got_new_tags,        \* per process: the local of regrid
  tag_level,           \* per process: finest level with a cell tag, local and then reduced
  branches,            \* per process: for each call, which way the test on got_new_tags went
  ts_alloc,            \* per process: the time stepper's storage is allocated
  ts_cached,           \* per process: the time stepper holds a cache of its state
  tags_alloc,          \* per process: m_tags is allocated
  cache_alloc,         \* per process: m_cached_tags is allocated
  amr_args,            \* (lmin, lmax, hardcap) of the last call of m_amr->regrid
  nreduce,             \* per process: the MPI_Allreduce calls of get_finest_tag_level it has made
  \* ---- checkpoint and restart
  amr_dx0,             \* m_amr->get_dx()[0] of the running process
  amr_grids,           \* m_amr->get_grids(): the box list of each level, level l at index l+1
  m_tags,              \* driver::m_tags: the tagged cells of each level, level l at index l+1
  covered,             \* the cells covered by the embedded boundary
  m_max_chk_depth,     \* driver::m_max_chk_depth
  chk_file,            \* the checkpoint file: header and one group per level written
  at_write,            \* the driver state at the time the checkpoint was written
  cpc,                 \* position inside write_checkpoint_file / read_checkpoint_file
  boxes,               \* local of read_checkpoint_file: the box lists read so far
  chk_log,             \* the calls made by read_checkpoint_file, in order
  \* ---- the tags: geometric tags, tag_cells, cache_tags and regrid_internals on the cells
  m_allow_coarsen,     \* driver::m_allow_coarsen
  m_geocoarsen,        \* driver::m_geocoarsen: the boxes of the geo coarsener and their levels
  m_tag_depths,        \* the six m_*_tag_depth of the driver, in the order of set_geom_refinement_depth
  m_geom_tag_depth,    \* driver::m_geom_tag_depth
  m_geom_tags,         \* driver::m_geom_tags: the geometric tags of each level, level l at index l+1
  owner,               \* the process owning each box of m_amr->get_grids(), level l at index l+1
  all_tags,            \* per process: the local tags of regrid, filled by tag_cells
  m_cached_tags,       \* driver::m_cached_tags: the boolean mask of each level
  pre_regrid,          \* the tags, grids and owners at the time cache_tags was called
  tpc,                 \* position inside setup_fresh and its regrid
  \* ---- driver::parse_output_directory, per process
  success,             \* per process: the local success of parse_output_directory
  ncmd,                \* the mkdir commands rank 0 has run
  made,                \* the directories that exist
  failed,              \* the directories whose mkdir command failed
  dpc                  \* per process: position inside parse_output_directory

runVars == <<a_end_time, a_max_steps, m_restart, m_regrid_interval, m_recursive_regrid,
             m_plot_interval, m_chk_interval, last_step, first_step, init_dt,
             need_regrid, iter, events, ts_sync, init_regrids_left, advances>>

sharedVars == <<m_time, m_dt, m_step, finest_level, max_amr_depth, max_sim_depth, pc>>

regridVars == <<has_tagger, calls, ncalls, rpc, stages, got_new_tags, tag_level, branches,
                ts_alloc, ts_cached, tags_alloc, cache_alloc, amr_args, nreduce>>

chkVars == <<amr_dx0, amr_grids, m_tags, covered, m_max_chk_depth, chk_file, at_write, cpc,
             boxes, chk_log>>

tagVars == <<m_allow_coarsen, m_geocoarsen, m_tag_depths, m_geom_tag_depth, m_geom_tags, owner,
             all_tags, m_cached_tags, pre_regrid, tpc>>

dirVars == <<success, ncmd, made, failed, dpc>>

vars == <<sharedVars, runVars, regridVars, chkVars, tagVars, dirVars>>

\* ------------------------------------------------------------------------
\* Helpers
\* ------------------------------------------------------------------------

Min(a, b) == IF a < b THEN a ELSE b

Max(a, b) == IF a > b THEN a ELSE b

Abs(a) == IF a < 0 THEN -a ELSE a

\* C++ integer remainder for a non-negative dividend and a positive divisor
CMod(a, b) == a % b

\* a < 1.E-5*b on the integers: a*StallFactor < b, written without the product
BelowFraction(a, b) == a <= (b - 1) \div StallFactor

\* The processes of the job
Procs == 1..NProcs

\* Time steps the time stepper can propose (compute_dt) or report (advance)
DtValues ==
  {0, 1} \cup {k * StallFactor : k \in 1..MaxDtUnits} \cup {MaxDtUnits * StallFactor + 1}

\* Values of driver.regrid_interval: negative, zero and positive
RegridIntervals == {-1, 0, 1, MaxInterval}

\* Values of (driver.plot_interval, driver.checkpoint_interval): either output
\* switched off, or both on
OutputIntervals == {<<0, MaxInterval>>, <<MaxInterval, 0>>, <<MaxInterval, MaxInterval>>}

\* End times of the run; the start time is 0
EndTimes == {1, 2 * StallFactor, 2 * StallFactor + 1}

\* m_amr->get_ref_rat(): refinement ratio between level l-1 and level l, at index l
RefRat == <<2, 2, 4, 2>>

\* The (max_amr_depth, max_sim_depth, finest_level) triples a mesh can be in
DepthConfigs ==
  {<<0, 0, 0>>, <<MaxDepth, 0, 0>>} \cup {<<MaxDepth, MaxDepth, f>> : f \in 0..MaxDepth}


\* A box is an interval <<lo, hi>> of cells; the box lists a level can have
BoxLists == { << <<1, 2>> >>, << <<1, 1>>, <<2, 2>> >> }

\* The box list of every level before the first regrid call of SpecRegrid
InitialBoxes == << <<1, 2>> >>

\* The box list m_amr->regrid builds for a level whose box list was bl: the mesh
\* may build any list, and the model takes one that differs from bl
Regenerated(bl) == CHOOSE b \in BoxLists : b # bl

\* The grids m_amr->regrid(tags, lmin, lmax, regsize, hardcap) leaves behind when
\* the new finest level is nf: the levels below lmin keep their box lists, the
\* levels from lmin on are built anew
NewGrids(grids, lmin, nf) ==
  [i \in 1..(nf + 1) |->
     IF i - 1 < lmin /\ i <= Len(grids) THEN grids[i]
     ELSE IF i <= Len(grids) THEN Regenerated(grids[i])
     ELSE InitialBoxes]

\* Finest levels m_amr->regrid(tags, lmin, lmax, regsize, hardcap) can leave behind:
\* levels below lmin are untouched and no level above hardcap is built.
NewFinestLevels(old, lmin, hardcap) ==
  {n \in 0..Min(hardcap, max_amr_depth) : n >= Min(lmin - 1, old)}

\* RegridHardcap with the depth of the mesh as the cap
RegridHardcapDepth(old_finest_level) == max_amr_depth

\* regrid, line 1098: the last argument of m_amr->regrid
RegridHardcap(old_finest_level) == old_finest_level + 1

\* ------------------------------------------------------------------------
\* driver::run -- the time loop
\* ------------------------------------------------------------------------

\* RecursiveLmin with iref left at 1: every level is tested against the interval alone
RECURSIVE RecursiveLminNoIref(_, _, _, _)
RecursiveLminNoIref(lvl, iref, lmin, step) ==
  IF lvl > 0
  THEN RecursiveLminNoIref(lvl - 1, iref,
                           IF CMod(step, iref * m_regrid_interval) = 0 THEN lvl ELSE lmin, step)
  ELSE lmin

\* The regrid window of the recursive policy: the loop of run that walks from the
\* finest level down to level 1, multiplying iref by the refinement ratios.
RECURSIVE RecursiveLmin(_, _, _, _)
RecursiveLmin(lvl, iref, lmin, step) ==
  IF lvl > 0
  THEN RecursiveLmin(lvl - 1, iref * RefRat[lvl],
                     IF CMod(step, iref * m_regrid_interval) = 0 THEN lvl ELSE lmin, step)
  ELSE lmin

\* RegridLmin with lmin held down to the finest level, so that the window of a mesh
\* of one level is [0, 0]
RegridLminWithinMesh ==
  Min(finest_level, IF ~m_recursive_regrid THEN 1 ELSE RecursiveLmin(finest_level, 1, 1, m_step))

\* RegridLmin with the window of the non-recursive policy starting at level 0
RegridLminZero ==
  IF ~m_recursive_regrid THEN 0 ELSE RecursiveLmin(finest_level, 1, 1, m_step)

\* lmin of the regrid the loop issues at the current step
RegridLmin ==
  IF ~m_recursive_regrid THEN 1 ELSE RecursiveLmin(finest_level, 1, 1, m_step)

\* can_regrid of run
CanRegrid == max_sim_depth > 0 /\ max_amr_depth > 0

\* check_step of run, where it is defined (m_regrid_interval # 0)
CheckStep == CMod(m_step, Abs(m_regrid_interval)) = 0 /\ m_regrid_interval > 0

\* CheckTimestepper honoured only on the steps of the regrid interval
CheckTimestepperOnInterval(ntr) == ntr /\ m_regrid_interval > 0 /\ CheckStep

\* check_timestepper of run
CheckTimestepper(ntr) == ntr /\ m_regrid_interval > 0

\* RegridDue without the test on first_step
RegridDueAlsoFirst(ntr) ==
  /\ CanRegrid
  /\ (m_regrid_interval # 0 /\ CheckStep) \/ CheckTimestepper(ntr)

\* run, lines 1242-1243: the conditions under which the iteration regrids
RegridDue(ntr) ==
  /\ CanRegrid
  /\ (m_regrid_interval # 0 /\ CheckStep) \/ CheckTimestepper(ntr)
  /\ ~first_step

\* DtTooSmall with <= in place of <
DtTooSmallInclusive == m_dt <= init_dt \div StallFactor

\* The test of the stall abort
DtTooSmall == BelowFraction(m_dt, init_dt)

\* OverrunsEnd comparing the time step alone with the end time
OverrunsEndNoTime == m_dt > a_end_time

\* The test that shortens the last step
OverrunsEnd == m_time + m_dt > a_end_time

\* Actual time steps m_timestepper->advance(dt) can report
ActualDts(dt) == DtValues \cup {dt}

\* The restart states (m_step, m_time): the header of the checkpoint that
\* read_checkpoint_file restored before run is entered
RestartStates == {<<1, StallFactor>>, <<2, 2 * StallFactor>>}

\* The variables of the checkpoint code while no checkpoint is modelled
ChkIdle ==
  /\ amr_dx0 = 1
  /\ amr_grids = <<>>
  /\ m_tags = <<>>
  /\ covered = {}
  /\ m_max_chk_depth = -1
  /\ chk_file = <<>>
  /\ at_write = <<>>
  /\ cpc = "idle"
  /\ boxes = <<>>
  /\ chk_log = <<>>

\* The variables of regrid while no regrid pipeline is modelled
RegridIdle ==
  /\ has_tagger = TRUE
  /\ calls = <<>>
  /\ ncalls = [p \in Procs |-> 0]
  /\ rpc = [p \in Procs |-> "idle"]
  /\ stages = [p \in Procs |-> <<>>]
  /\ got_new_tags = [p \in Procs |-> FALSE]
  /\ tag_level = [p \in Procs |-> -1]
  /\ branches = [p \in Procs |-> <<>>]
  /\ ts_alloc = [p \in Procs |-> TRUE]
  /\ ts_cached = [p \in Procs |-> FALSE]
  /\ tags_alloc = [p \in Procs |-> TRUE]
  /\ cache_alloc = [p \in Procs |-> FALSE]
  /\ amr_args = <<>>
  /\ nreduce = [p \in Procs |-> 0]

\* The variables of the tags while no tags are modelled
TagIdle ==
  /\ m_allow_coarsen = FALSE
  /\ m_geocoarsen = <<>>
  /\ m_tag_depths = <<>>
  /\ m_geom_tag_depth = 0
  /\ m_geom_tags = <<>>
  /\ owner = <<>>
  /\ all_tags = <<>>
  /\ m_cached_tags = <<>>
  /\ pre_regrid = <<>>
  /\ tpc = "idle"

\* The variables of parse_output_directory while the directories are not modelled
DirIdle ==
  /\ success = [p \in Procs |-> 0]
  /\ ncmd = 0
  /\ made = {}
  /\ failed = {}
  /\ dpc = [p \in Procs |-> "idle"]

\* InitialRegridLmin with the window starting at the finest level, which is the
\* base level on a mesh of one level
InitialRegridLminFinest == finest_level

\* setup_fresh, line 1984, and setup_for_restart, line 2036: lmin of an initial regrid
InitialRegridLmin == 1

RunInit ==
  /\ \E d \in DepthConfigs :
       /\ max_amr_depth = d[1]
       /\ max_sim_depth = d[2]
       /\ finest_level = d[3]
  /\ a_end_time \in EndTimes
  /\ a_max_steps \in {0, MaxSteps}
  /\ m_regrid_interval \in RegridIntervals
  /\ m_recursive_regrid \in BOOLEAN
  /\ \E o \in OutputIntervals : m_plot_interval = o[1] /\ m_chk_interval = o[2]
  /\ m_restart \in BOOLEAN
  /\ IF m_restart
     THEN \E r \in RestartStates : m_step = r[1] /\ m_time = r[2] /\ m_dt = StallFactor
     ELSE m_step = 0 /\ m_time = 0 /\ m_dt = 0
  /\ last_step = FALSE
  /\ first_step = FALSE
  /\ init_dt = 0
  /\ need_regrid = FALSE
  /\ iter = [n |-> 0, step |-> m_step, time |-> m_time, finest |-> finest_level]
  /\ events = <<>>
  /\ ts_sync = <<m_step, m_time, m_dt>>
  /\ init_regrids_left \in 0..MaxInitRegrids
  /\ advances = [from |-> m_step, done |-> 0]
  /\ pc = "setup"
  /\ RegridIdle
  /\ ChkIdle
  /\ TagIdle
  /\ DirIdle

\* setup_fresh, lines 1979-1991, and setup_for_restart, lines 2031-2043: one
\* iteration of the initial-regrid loop, this->regrid(1, finest level, ...)
InitialRegrid ==
  /\ pc = "setup"
  /\ init_regrids_left > 0
  /\ init_regrids_left' = init_regrids_left - 1
  /\ events' = Append(events, <<"regrid", InitialRegridLmin, finest_level>>)
  /\ \E new_tags \in BOOLEAN :
       IF new_tags
       THEN finest_level' \in NewFinestLevels(finest_level, InitialRegridLmin,
                                               RegridHardcap(finest_level))
       ELSE finest_level' = finest_level
  /\ UNCHANGED <<m_time, m_dt, m_step, max_amr_depth, max_sim_depth, pc,
                 a_end_time, a_max_steps, m_restart, m_regrid_interval, m_recursive_regrid,
                 m_plot_interval, m_chk_interval, last_step, first_step, init_dt,
                 need_regrid, iter, ts_sync>>
  /\ UNCHANGED <<advances, regridVars, chkVars, tagVars, dirVars>>

\* setup, lines 1847-1860, and setup_and_run, line 1406: after the initial regrids
\* a fresh job writes a plot file if plot files are written at all, and run is called
SetupDone ==
  /\ pc = "setup"
  /\ init_regrids_left = 0
  /\ events' = IF ~m_restart /\ m_plot_interval > 0
                THEN Append(events, <<"plot", m_step, m_time>>)
                ELSE events
  /\ pc' = "run_entry"
  /\ UNCHANGED <<m_time, m_dt, m_step, finest_level, max_amr_depth, max_sim_depth,
                 a_end_time, a_max_steps, m_restart, m_regrid_interval, m_recursive_regrid,
                 m_plot_interval, m_chk_interval, last_step, first_step, init_dt,
                 need_regrid, iter, ts_sync>>
  /\ UNCHANGED <<init_regrids_left, advances, regridVars, chkVars, tagVars, dirVars>>

\* run, lines 1204-1215: the entry of run up to the loop
RunEnter ==
  /\ pc = "run_entry"
  /\ IF a_max_steps > 0
     THEN /\ m_time' = (IF ~m_restart THEN 0 ELSE m_time)
          /\ m_step' = (IF ~m_restart THEN 0 ELSE m_step)
          /\ \E d \in DtValues : m_dt' = d
          /\ ts_sync' = <<m_step', m_time', m_dt'>>
          /\ last_step' = FALSE
          /\ first_step' = TRUE
          /\ init_dt' = m_dt'
          /\ advances' = [from |-> m_step', done |-> 0]
          /\ pc' = "loop_test"
     ELSE /\ pc' = "run_exit"
          /\ UNCHANGED <<m_time, m_step, m_dt, ts_sync, last_step, first_step, init_dt,
                         advances>>
  /\ UNCHANGED <<finest_level, max_amr_depth, max_sim_depth, a_end_time, a_max_steps,
                 m_restart, m_regrid_interval, m_recursive_regrid, m_plot_interval,
                 m_chk_interval, need_regrid, iter, events>>
  /\ UNCHANGED <<init_regrids_left, regridVars, chkVars, tagVars, dirVars>>

\* LoopCondition without the bound on the number of steps
LoopConditionNoStepBound == m_time < a_end_time /\ ~last_step

\* LoopCondition leaving the loop one step before a_max_steps
LoopConditionOneShort == m_time < a_end_time /\ m_step < a_max_steps - 1 /\ ~last_step

\* run, line 1233: the condition of the while loop
LoopCondition == m_time < a_end_time /\ m_step < a_max_steps /\ ~last_step

\* run, line 1233: the loop condition is tested
LoopTest ==
  /\ pc = "loop_test"
  /\ IF LoopCondition
     THEN /\ pc' = "regrid_test"
          /\ iter' = [n |-> iter.n + 1, step |-> m_step, time |-> m_time,
                       finest |-> finest_level]
          /\ events' = <<>>
     ELSE /\ pc' = "run_exit"
          /\ UNCHANGED <<iter, events>>
  /\ UNCHANGED <<m_time, m_dt, m_step, finest_level, max_amr_depth, max_sim_depth,
                 a_end_time, a_max_steps, m_restart, m_regrid_interval, m_recursive_regrid,
                 m_plot_interval, m_chk_interval, last_step, first_step, init_dt,
                 need_regrid, ts_sync>>
  /\ UNCHANGED <<init_regrids_left, advances, regridVars, chkVars, tagVars, dirVars>>

\* run, lines 1234-1262: the regrid test and the choice of the window.  The three
\* flags are evaluated in every iteration; m_step % m_regrid_interval with
\* m_regrid_interval = 0 is undefined: the process is killed by the division, or
\* the build tests m_regrid_interval > 0 first and check_step is false.
RegridTest ==
  /\ pc = "regrid_test"
  /\ \E ntr \in BOOLEAN :
       /\ need_regrid' = ntr
       /\ \/ /\ m_regrid_interval = 0
             /\ pc' = "crashed"
          \/ /\ pc' = IF RegridDue(ntr) THEN "regrid_call" ELSE "compute_dt"
  /\ UNCHANGED <<m_time, m_dt, m_step, finest_level, max_amr_depth, max_sim_depth,
                 a_end_time, a_max_steps, m_restart, m_regrid_interval, m_recursive_regrid,
                 m_plot_interval, m_chk_interval, last_step, first_step, init_dt,
                 iter, events, ts_sync>>
  /\ UNCHANGED <<init_regrids_left, advances, regridVars, chkVars, tagVars, dirVars>>

\* run, line 1268: this->regrid(lmin, lmax, false).  The call either finds no new
\* tags and returns, or rebuilds the levels lmin..lmax.
RunRegrid ==
  /\ pc = "regrid_call"
  /\ events' = Append(events, <<"regrid", RegridLmin, finest_level>>)
  /\ \E new_tags \in BOOLEAN :
       IF new_tags
       THEN finest_level' \in NewFinestLevels(finest_level, RegridLmin,
                                               RegridHardcap(finest_level))
       ELSE finest_level' = finest_level
  /\ pc' = "compute_dt"
  /\ UNCHANGED <<m_time, m_dt, m_step, max_amr_depth, max_sim_depth,
                 a_end_time, a_max_steps, m_restart, m_regrid_interval, m_recursive_regrid,
                 m_plot_interval, m_chk_interval, last_step, first_step, init_dt,
                 need_regrid, iter, ts_sync>>
  /\ UNCHANGED <<init_regrids_left, advances, regridVars, chkVars, tagVars, dirVars>>

\* run, lines 1290-1296: a new time step in every iteration but the first
ComputeDt ==
  /\ pc = "compute_dt"
  /\ IF ~first_step
     THEN /\ \E d \in DtValues : m_dt' = d
          /\ events' = Append(events, <<"compute_dt">>)
     ELSE UNCHANGED <<m_dt, events>>
  /\ first_step' = FALSE
  /\ pc' = "stall_test"
  /\ UNCHANGED <<m_time, m_step, finest_level, max_amr_depth, max_sim_depth,
                 a_end_time, a_max_steps, m_restart, m_regrid_interval, m_recursive_regrid,
                 m_plot_interval, m_chk_interval, last_step, init_dt,
                 need_regrid, iter, ts_sync>>
  /\ UNCHANGED <<init_regrids_left, advances, regridVars, chkVars, tagVars, dirVars>>

\* run, lines 1298-1311: the stall abort
StallTest ==
  /\ pc = "stall_test"
  /\ IF DtTooSmall
     THEN /\ m_step' = m_step + 1
          /\ events' = events \o << <<"plot", m_step', m_time>>,
                                    <<"chk", m_step', m_time, m_dt>>,
                                    <<"abort">> >>
          /\ pc' = "aborted"
     ELSE /\ pc' = "clamp_dt"
          /\ UNCHANGED <<m_step, events>>
  /\ UNCHANGED <<m_time, m_dt, finest_level, max_amr_depth, max_sim_depth,
                 a_end_time, a_max_steps, m_restart, m_regrid_interval, m_recursive_regrid,
                 m_plot_interval, m_chk_interval, last_step, first_step, init_dt,
                 need_regrid, iter, ts_sync>>
  /\ UNCHANGED <<init_regrids_left, advances, regridVars, chkVars, tagVars, dirVars>>

\* ClampDt followed by the stall test: the shortened step is tested against
\* init_dt before it is advanced
ClampDtThenStallTest ==
  /\ pc = "clamp_dt"
  /\ IF OverrunsEnd
     THEN /\ m_dt' = a_end_time - m_time
          /\ last_step' = TRUE
     ELSE UNCHANGED <<m_dt, last_step>>
  /\ IF BelowFraction(m_dt', init_dt)
     THEN /\ m_step' = m_step + 1
          /\ events' = events \o << <<"plot", m_step', m_time>>,
                                    <<"chk", m_step', m_time, m_dt'>>,
                                    <<"abort">> >>
          /\ pc' = "aborted"
     ELSE /\ pc' = "advance"
          /\ UNCHANGED <<m_step, events>>
  /\ UNCHANGED <<m_time, finest_level, max_amr_depth, max_sim_depth,
                 a_end_time, a_max_steps, m_restart, m_regrid_interval, m_recursive_regrid,
                 m_plot_interval, m_chk_interval, first_step, init_dt,
                 need_regrid, iter, ts_sync>>
  /\ UNCHANGED <<init_regrids_left, advances, regridVars, chkVars, tagVars, dirVars>>

\* run, lines 1313-1317: the last step is shortened to end on a_end_time
ClampDt ==
  /\ pc = "clamp_dt"
  /\ IF OverrunsEnd
     THEN /\ m_dt' = a_end_time - m_time
          /\ last_step' = TRUE
     ELSE UNCHANGED <<m_dt, last_step>>
  /\ pc' = "advance"
  /\ UNCHANGED <<m_time, m_step, finest_level, max_amr_depth, max_sim_depth,
                 a_end_time, a_max_steps, m_restart, m_regrid_interval, m_recursive_regrid,
                 m_plot_interval, m_chk_interval, first_step, init_dt,
                 need_regrid, iter, events, ts_sync>>
  /\ UNCHANGED <<init_regrids_left, advances, regridVars, chkVars, tagVars, dirVars>>

\* Advance with the time moved on by the dt asked for, not by the dt advance reports
AdvanceByRequestedDt ==
  /\ pc = "advance"
  /\ \E actual_dt \in ActualDts(m_dt) :
       /\ events' = Append(events, <<"advance", m_dt, actual_dt>>)
       /\ m_dt' = actual_dt
       /\ m_time' = m_time + m_dt
  /\ m_step' = m_step + 1
  /\ advances' = [advances EXCEPT !.done = @ + 1]
  /\ ts_sync' = <<m_step', m_time', m_dt'>>
  /\ last_step' = IF BelowFraction(Abs(m_time' - a_end_time), m_dt') THEN TRUE ELSE last_step
  /\ pc' = "output"
  /\ UNCHANGED <<finest_level, max_amr_depth, max_sim_depth,
                 a_end_time, a_max_steps, m_restart, m_regrid_interval, m_recursive_regrid,
                 m_plot_interval, m_chk_interval, first_step, init_dt,
                 need_regrid, iter>>
  /\ UNCHANGED <<init_regrids_left, regridVars, chkVars, tagVars, dirVars>>

\* run, lines 1319-1332: the step itself and the bookkeeping after it
Advance ==
  /\ pc = "advance"
  /\ \E actual_dt \in ActualDts(m_dt) :
       /\ events' = Append(events, <<"advance", m_dt, actual_dt>>)
       /\ m_dt' = actual_dt
       /\ m_time' = m_time + actual_dt
  /\ m_step' = m_step + 1
  /\ advances' = [advances EXCEPT !.done = @ + 1]
  /\ ts_sync' = <<m_step', m_time', m_dt'>>
  /\ last_step' = IF BelowFraction(Abs(m_time' - a_end_time), m_dt') THEN TRUE ELSE last_step
  /\ pc' = "output"
  /\ UNCHANGED <<finest_level, max_amr_depth, max_sim_depth,
                 a_end_time, a_max_steps, m_restart, m_regrid_interval, m_recursive_regrid,
                 m_plot_interval, m_chk_interval, first_step, init_dt,
                 need_regrid, iter>>
  /\ UNCHANGED <<init_regrids_left, regridVars, chkVars, tagVars, dirVars>>

\* The events of the plot cadence, line 1352
PlotEvents ==
  IF m_plot_interval > 0 /\ (CMod(m_step, m_plot_interval) = 0 \/ last_step)
  THEN << <<"plot", m_step, m_time>> >> ELSE <<>>

\* The events of the checkpoint cadence, line 1363
ChkEvents ==
  IF m_chk_interval > 0 /\ (CMod(m_step, m_chk_interval) = 0 \/ last_step)
  THEN << <<"chk", m_step, m_time, m_dt>> >> ELSE <<>>

\* run, lines 1351-1369: the plot and checkpoint cadence.  m_step % 0 is undefined
\* as in RegridTest: the division kills the process, or the test is false.
Output ==
  /\ pc = "output"
  /\ \/ /\ m_plot_interval = 0
        /\ pc' = "crashed"
        /\ UNCHANGED events
     \/ /\ m_chk_interval = 0
        /\ events' = events \o PlotEvents
        /\ pc' = "crashed"
     \/ /\ events' = events \o PlotEvents \o ChkEvents
        /\ pc' = "loop_test"
  /\ UNCHANGED <<m_time, m_dt, m_step, finest_level, max_amr_depth, max_sim_depth,
                 a_end_time, a_max_steps, m_restart, m_regrid_interval, m_recursive_regrid,
                 m_plot_interval, m_chk_interval, last_step, first_step, init_dt,
                 need_regrid, iter, ts_sync>>
  /\ UNCHANGED <<init_regrids_left, advances, regridVars, chkVars, tagVars, dirVars>>

\* run, line 1380: m_timestepper->deallocate() after the loop
RunExit ==
  /\ pc = "run_exit"
  /\ pc' = "done"
  /\ events' = Append(events, <<"ts_deallocate">>)
  /\ UNCHANGED <<m_time, m_dt, m_step, finest_level, max_amr_depth, max_sim_depth,
                 a_end_time, a_max_steps, m_restart, m_regrid_interval, m_recursive_regrid,
                 m_plot_interval, m_chk_interval, last_step, first_step, init_dt,
                 need_regrid, iter, ts_sync>>
  /\ UNCHANGED <<init_regrids_left, advances, regridVars, chkVars, tagVars, dirVars>>

Init == RunInit

Next ==
  \/ InitialRegrid
  \/ SetupDone
  \/ RunEnter
  \/ LoopTest
  \/ RegridTest
  \/ RunRegrid
  \/ ComputeDt
  \/ StallTest
  \/ ClampDt
  \/ Advance
  \/ Output
  \/ RunExit

Spec == Init /\ [][Next]_vars

\* The states in which setup_and_run calls run for the study of termination: the
\* initial regrids of setup are done, both output cadences are switched on and
\* the regrid window is the non-recursive one; the mesh, the end time, max_steps,
\* the regrid interval, the restart and every answer of the time stepper are free
RunOnlyInit ==
  /\ RunInit
  /\ init_regrids_left = 0
  /\ m_plot_interval = MaxInterval
  /\ m_chk_interval = MaxInterval
  /\ ~m_recursive_regrid

\* setup_and_run, lines 1403-1407, from the end of setup on
RunOnlyNext ==
  \/ SetupDone
  \/ RunEnter
  \/ LoopTest
  \/ RegridTest
  \/ RunRegrid
  \/ ComputeDt
  \/ StallTest
  \/ ClampDt
  \/ Advance
  \/ Output
  \/ RunExit

\* run is sequential code: as long as the calls of the collaborators return, the
\* next statement is executed
SpecTermination == RunOnlyInit /\ [][RunOnlyNext]_vars /\ WF_vars(RunOnlyNext)

\* ------------------------------------------------------------------------
\* driver::regrid -- the pipeline, as every process of the job executes it
\* ------------------------------------------------------------------------

\* The variables of run while no time loop is modelled
RunIdle ==
  /\ a_end_time = 0
  /\ a_max_steps = 0
  /\ m_restart = FALSE
  /\ m_regrid_interval = 1
  /\ m_recursive_regrid = FALSE
  /\ m_plot_interval = 0
  /\ m_chk_interval = 0
  /\ last_step = FALSE
  /\ first_step = FALSE
  /\ init_dt = 0
  /\ need_regrid = FALSE
  /\ iter = [n |-> 0, step |-> 0, time |-> 0, finest |-> 0]
  /\ events = <<>>
  /\ ts_sync = <<0, 0, 0>>
  /\ init_regrids_left = 0
  /\ advances = [from |-> 0, done |-> 0]
  /\ pc = "idle"

RegridInit ==
  /\ m_time = 0
  /\ m_dt = 0
  /\ m_step = 0
  /\ max_amr_depth = MaxDepth
  /\ max_sim_depth = MaxDepth
  /\ finest_level \in 0..MaxDepth
  /\ RunIdle
  /\ has_tagger \in BOOLEAN
  /\ calls = <<>>
  /\ ncalls = [p \in Procs |-> 0]
  /\ rpc = [p \in Procs |-> "idle"]
  /\ stages = [p \in Procs |-> <<>>]
  /\ got_new_tags = [p \in Procs |-> FALSE]
  /\ tag_level = [p \in Procs |-> -1]
  /\ branches = [p \in Procs |-> <<>>]
  /\ ts_alloc = [p \in Procs |-> TRUE]
  /\ ts_cached = [p \in Procs |-> FALSE]
  /\ tags_alloc = [p \in Procs |-> TRUE]
  /\ cache_alloc = [p \in Procs |-> FALSE]
  /\ amr_args = <<>>
  /\ nreduce = [p \in Procs |-> 0]
  /\ amr_dx0 = 1
  /\ amr_grids = [i \in 1..(finest_level + 1) |-> InitialBoxes]
  /\ m_tags = <<>>
  /\ covered = {}
  /\ m_max_chk_depth = -1
  /\ chk_file = <<>>
  /\ at_write = <<>>
  /\ cpc = "idle"
  /\ boxes = <<>>
  /\ chk_log = <<>>
  /\ TagIdle
  /\ DirIdle

\* The arguments of the regrid call process p is in
Call(p) == calls[ncalls[p]]

\* Process p makes the call named s and moves on to position next
Stage(p, s, next) ==
  /\ stages' = [stages EXCEPT ![p] = Append(@, s)]
  /\ rpc' = [rpc EXCEPT ![p] = next]

\* The callers of regrid (run, setup_fresh, setup_for_restart): every process
\* makes the same call, so the first process to enter call k fixes its arguments.
RegridEnter(p) ==
  /\ rpc[p] = "idle"
  /\ ncalls[p] < MaxCalls
  /\ ncalls' = [ncalls EXCEPT ![p] = @ + 1]
  /\ IF ncalls[p] + 1 > Len(calls)
     THEN \E lmin \in 1..Max(1, finest_level), init \in BOOLEAN :
            calls' = Append(calls, [lmin |-> lmin, lmax |-> finest_level,
                                    use_initial_data |-> init, finest |-> finest_level,
                                    grids |-> amr_grids])
     ELSE UNCHANGED calls
  /\ stages' = [stages EXCEPT ![p] = <<>>]
  /\ rpc' = [rpc EXCEPT ![p] = "tag_cells"]
  /\ UNCHANGED <<got_new_tags, tag_level, branches, ts_alloc, ts_cached, tags_alloc,
                 cache_alloc, has_tagger, amr_args, nreduce>>
  /\ UNCHANGED <<sharedVars, runVars, chkVars, tagVars, dirVars>>

\* TaggerAnswers with got_new_tags left as it happens to be where no cell tagger
\* is attached
TaggerAnswersUninitialised == BOOLEAN

\* What tag_cells can return on one process: got_new_tags starts as false and is
\* set by m_celltagger->tag_cells, which is called only if there is a cell tagger
TaggerAnswers == IF has_tagger THEN BOOLEAN ELSE {FALSE}

\* The finest level holding a cell tag on one process: none, the base level or
\* the finest level
LocalTagLevels == {-1, 0, finest_level}

\* TagCellsLocal leaving out get_finest_tag_level where no cell tagger is attached
TagCellsLocalTaggerOnly(p) ==
  /\ rpc[p] = "tag_cells"
  /\ \E got \in TaggerAnswers : got_new_tags' = [got_new_tags EXCEPT ![p] = got]
  /\ \E l \in LocalTagLevels : tag_level' = [tag_level EXCEPT ![p] = IF has_tagger THEN l ELSE -1]
  /\ Stage(p, "tag_cells", IF has_tagger THEN "allreduce" ELSE "tags_done")
  /\ UNCHANGED <<calls, ncalls, branches, ts_alloc, ts_cached, tags_alloc, cache_alloc,
                 has_tagger, amr_args, nreduce>>
  /\ UNCHANGED <<sharedVars, runVars, chkVars, tagVars, dirVars>>

\* tag_cells, lines 2291-2314, and the local part of get_finest_tag_level,
\* lines 2262-2273: the cell tagger is asked on this process, and the finest level
\* holding a cell tag on this process is found
TagCellsLocal(p) ==
  /\ rpc[p] = "tag_cells"
  /\ \E got \in TaggerAnswers : got_new_tags' = [got_new_tags EXCEPT ![p] = got]
  /\ \E l \in LocalTagLevels : tag_level' = [tag_level EXCEPT ![p] = l]
  /\ Stage(p, "tag_cells", "allreduce")
  /\ UNCHANGED <<calls, ncalls, branches, ts_alloc, ts_cached, tags_alloc, cache_alloc,
                 has_tagger, amr_args, nreduce>>
  /\ UNCHANGED <<sharedVars, runVars, chkVars, tagVars, dirVars>>

\* The largest entry of f over the processes
RECURSIVE MaxOver(_, _)
MaxOver(f, n) == IF n = 1 THEN f[1] ELSE Max(f[n], MaxOver(f, n - 1))

\* get_finest_tag_level, lines 2275-2280: MPI_Allreduce(MPI_MAX) returns once
\* every process has entered it
AllReduce ==
  /\ \A p \in Procs : rpc[p] = "allreduce"
  /\ tag_level' = [p \in Procs |-> MaxOver(tag_level, NProcs)]
  /\ nreduce' = [p \in Procs |-> nreduce[p] + 1]
  /\ rpc' = [p \in Procs |-> "tags_done"]
  /\ UNCHANGED <<calls, ncalls, stages, got_new_tags, branches, ts_alloc, ts_cached,
                 tags_alloc, cache_alloc, has_tagger, amr_args>>
  /\ UNCHANGED <<sharedVars, runVars, chkVars, tagVars, dirVars>>

\* Branch without the return statement: the call goes on after finding no new tags
BranchFallsThrough(p) ==
  /\ rpc[p] = "tags_done"
  /\ IF ~got_new_tags[p]
     THEN /\ stages' = [stages EXCEPT ![p] =
                          IF Call(p).use_initial_data THEN Append(@, "ts_initial_data") ELSE @]
          /\ rpc' = [rpc EXCEPT ![p] = "cache_tags"]
          /\ branches' = [branches EXCEPT ![p] = Append(@, "return")]
     ELSE /\ rpc' = [rpc EXCEPT ![p] = "cache_tags"]
          /\ branches' = [branches EXCEPT ![p] = Append(@, "regrid")]
          /\ UNCHANGED stages
  /\ UNCHANGED <<calls, ncalls, got_new_tags, tag_level, ts_alloc, ts_cached, tags_alloc,
                 cache_alloc, has_tagger, amr_args, nreduce>>
  /\ UNCHANGED <<sharedVars, runVars, chkVars, tagVars, dirVars>>

\* regrid, lines 1066-1082: tag_cells returns the answer of the local cell tagger,
\* and regrid returns if there are no new tags
Branch(p) ==
  /\ rpc[p] = "tags_done"
  /\ IF ~got_new_tags[p]
     THEN /\ stages' = [stages EXCEPT ![p] =
                          IF Call(p).use_initial_data THEN Append(@, "ts_initial_data") ELSE @]
          /\ rpc' = [rpc EXCEPT ![p] = "idle"]
          /\ branches' = [branches EXCEPT ![p] = Append(@, "return")]
     ELSE /\ rpc' = [rpc EXCEPT ![p] = "cache_tags"]
          /\ branches' = [branches EXCEPT ![p] = Append(@, "regrid")]
          /\ UNCHANGED stages
  /\ UNCHANGED <<calls, ncalls, got_new_tags, tag_level, ts_alloc, ts_cached, tags_alloc,
                 cache_alloc, has_tagger, amr_args, nreduce>>
  /\ UNCHANGED <<sharedVars, runVars, chkVars, tagVars, dirVars>>

\* regrid, line 1086, and cache_tags: m_cached_tags is allocated and filled
CacheTags(p) ==
  /\ rpc[p] = "cache_tags"
  /\ cache_alloc' = [cache_alloc EXCEPT ![p] = TRUE]
  /\ Stage(p, "cache_tags", "ts_cache")
  /\ UNCHANGED <<calls, ncalls, got_new_tags, tag_level, branches, ts_alloc, ts_cached,
                 tags_alloc, has_tagger, amr_args, nreduce>>
  /\ UNCHANGED <<sharedVars, runVars, chkVars, tagVars, dirVars>>

\* regrid, line 1087: m_timestepper->cache()
TsCache(p) ==
  /\ rpc[p] = "ts_cache"
  /\ ts_cached' = [ts_cached EXCEPT ![p] = TRUE]
  /\ Stage(p, "ts_cache", "deallocate_internals")
  /\ UNCHANGED <<calls, ncalls, got_new_tags, tag_level, branches, ts_alloc, tags_alloc,
                 cache_alloc, has_tagger, amr_args, nreduce>>
  /\ UNCHANGED <<sharedVars, runVars, chkVars, tagVars, dirVars>>

\* regrid, line 1090, and deallocate_internals, whose only statement is commented out
DeallocateInternals(p) ==
  /\ rpc[p] = "deallocate_internals"
  /\ Stage(p, "deallocate_internals", "ts_deallocate")
  /\ UNCHANGED <<calls, ncalls, got_new_tags, tag_level, branches, ts_alloc, ts_cached,
                 tags_alloc, cache_alloc, has_tagger, amr_args, nreduce>>
  /\ UNCHANGED <<sharedVars, runVars, chkVars, tagVars, dirVars>>

\* TsDeallocate left out: the call goes from deallocate_internals to the mesh regrid
TsDeallocateSkipped(p) ==
  /\ rpc[p] = "ts_deallocate"
  /\ rpc' = [rpc EXCEPT ![p] = "amr_regrid"]
  /\ UNCHANGED <<calls, ncalls, stages, got_new_tags, tag_level, branches, ts_alloc, ts_cached,
                 tags_alloc, cache_alloc, has_tagger, amr_args, nreduce>>
  /\ UNCHANGED <<sharedVars, runVars, chkVars, tagVars, dirVars>>

\* regrid, line 1091: m_timestepper->deallocate()
TsDeallocate(p) ==
  /\ rpc[p] = "ts_deallocate"
  /\ ts_alloc' = [ts_alloc EXCEPT ![p] = FALSE]
  /\ Stage(p, "ts_deallocate", "amr_regrid")
  /\ UNCHANGED <<calls, ncalls, got_new_tags, tag_level, branches, ts_cached, tags_alloc,
                 cache_alloc, has_tagger, amr_args, nreduce>>
  /\ UNCHANGED <<sharedVars, runVars, chkVars, tagVars, dirVars>>

\* AmrRegridArgs with the base level as the lower end of the window
AmrRegridArgsFromBase(c, old_finest_level) ==
  <<0, c.lmax, RegridHardcap(old_finest_level)>>

\* regrid, line 1098: the window and the cap handed to m_amr->regrid by call c
AmrRegridArgs(c, old_finest_level) ==
  <<c.lmin, c.lmax, RegridHardcap(old_finest_level)>>

\* regrid, lines 1096-1099: m_amr->regrid is collective; it returns once every
\* process has entered it
AmrRegrid ==
  /\ \A p \in Procs : rpc[p] = "amr_regrid"
  /\ amr_args' = AmrRegridArgs(Call(1), finest_level)
  /\ finest_level' \in NewFinestLevels(finest_level, amr_args'[1], amr_args'[3])
  /\ amr_grids' = NewGrids(amr_grids, amr_args'[1], finest_level')
  /\ stages' = [p \in Procs |-> Append(stages[p], "amr_regrid")]
  /\ rpc' = [p \in Procs |-> "regrid_internals"]
  /\ UNCHANGED <<calls, ncalls, got_new_tags, tag_level, branches, ts_alloc, ts_cached,
                 tags_alloc, cache_alloc, has_tagger, nreduce>>
  /\ UNCHANGED <<m_time, m_dt, m_step, max_amr_depth, max_sim_depth, pc, runVars, tagVars>>
  /\ UNCHANGED <<amr_dx0, m_tags, covered, m_max_chk_depth, chk_file, at_write, cpc, boxes,
                 chk_log, dirVars>>

\* regrid, line 1104, and regrid_internals: m_tags is reallocated and the cached
\* tags are copied back
RegridInternals(p) ==
  /\ rpc[p] = "regrid_internals"
  /\ tags_alloc' = [tags_alloc EXCEPT ![p] = TRUE]
  /\ Stage(p, "regrid_internals", "ts_regrid")
  /\ UNCHANGED <<calls, ncalls, got_new_tags, tag_level, branches, ts_alloc, ts_cached,
                 cache_alloc, has_tagger, amr_args, nreduce>>
  /\ UNCHANGED <<sharedVars, runVars, chkVars, tagVars, dirVars>>

\* regrid, lines 1105-1108: m_timestepper->regrid and, if asked for, initial_data
TsRegrid(p) ==
  /\ rpc[p] = "ts_regrid"
  /\ ts_alloc' = [ts_alloc EXCEPT ![p] = TRUE]
  /\ stages' = [stages EXCEPT ![p] =
                  IF Call(p).use_initial_data
                  THEN @ \o <<"ts_regrid", "ts_initial_data">>
                  ELSE Append(@, "ts_regrid")]
  /\ rpc' = [rpc EXCEPT ![p] = "tagger_regrid"]
  /\ UNCHANGED <<calls, ncalls, got_new_tags, tag_level, branches, ts_cached, tags_alloc,
                 cache_alloc, has_tagger, amr_args, nreduce>>
  /\ UNCHANGED <<sharedVars, runVars, chkVars, tagVars, dirVars>>

\* regrid, line 1109: m_celltagger->regrid(), through the pointer without a test
TaggerRegrid(p) ==
  /\ rpc[p] = "tagger_regrid"
  /\ Stage(p, "tagger_regrid", IF has_tagger THEN "idle" ELSE "crashed")
  /\ UNCHANGED <<calls, ncalls, got_new_tags, tag_level, branches, ts_alloc, ts_cached,
                 tags_alloc, cache_alloc, has_tagger, amr_args, nreduce>>
  /\ UNCHANGED <<sharedVars, runVars, chkVars, tagVars, dirVars>>

RegridNext ==
  \/ \E p \in Procs : RegridEnter(p)
  \/ \E p \in Procs : TagCellsLocal(p)
  \/ AllReduce
  \/ \E p \in Procs : Branch(p)
  \/ \E p \in Procs : CacheTags(p)
  \/ \E p \in Procs : TsCache(p)
  \/ \E p \in Procs : DeallocateInternals(p)
  \/ \E p \in Procs : TsDeallocate(p)
  \/ AmrRegrid
  \/ \E p \in Procs : RegridInternals(p)
  \/ \E p \in Procs : TsRegrid(p)
  \/ \E p \in Procs : TaggerRegrid(p)

SpecRegrid == RegridInit /\ [][RegridNext]_vars

\* ------------------------------------------------------------------------
\* driver::write_checkpoint_file and driver::read_checkpoint_file
\* ------------------------------------------------------------------------

\* Coarsest-level spacings a mesh can be configured with
DxValues == 1..MaxDx

\* The cells of a box list
RECURSIVE CellsOf(_)
CellsOf(bl) == IF bl = <<>> THEN {} ELSE (Head(bl)[1]..Head(bl)[2]) \cup CellsOf(Tail(bl))

\* The tagged-cell sets a level can carry
TagSets == {{}, {1}, {1, 2}}

\* (m_step, m_time, m_dt) of the driver when the checkpoint is written
LiveStates == {<<1, StallFactor, StallFactor>>, <<2, 2 * StallFactor + 1, 1>>,
               <<3, 2 * StallFactor, 0>>}

\* Sequences of length n over the set S
SeqsOf(S, n) == [1..n -> S]

ChkInit ==
  /\ \E st \in LiveStates : m_step = st[1] /\ m_time = st[2] /\ m_dt = st[3]
  /\ max_amr_depth = MaxDepth
  /\ max_sim_depth = MaxDepth
  /\ finest_level \in 0..MaxDepth
  /\ RunIdle
  /\ RegridIdle
  /\ amr_dx0 \in DxValues
  /\ amr_grids \in SeqsOf(BoxLists, finest_level + 1)
  /\ covered \in {{}, {2}}
  /\ m_tags \in SeqsOf({t \in TagSets : t \cap covered = {}}, finest_level + 1)
  /\ m_max_chk_depth \in -1..MaxDepth
  /\ chk_file = <<>>
  /\ at_write = <<>>
  /\ cpc = "live"
  /\ boxes = <<>>
  /\ chk_log = <<>>
  /\ TagIdle
  /\ DirIdle

\* write_checkpoint_file, lines 2604-2608: the finest level written
FinestChkLevel ==
  IF m_max_chk_depth < 0 THEN finest_level ELSE Min(m_max_chk_depth, finest_level)

\* write_checkpoint_file, lines 2610-2615: the header
ChkHeader ==
  [coarsest_dx |-> amr_dx0, time |-> m_time, dt |-> m_dt, step |-> m_step,
   finest_level |-> finest_level]

\* write_checkpoint_level: the field "tagged_cells" of level lvl, 1.0 on the tagged
\* cells, and 0.0 on the covered cells
TaggedCellsField(lvl) ==
  [c \in CellsOf(amr_grids[lvl + 1]) |->
     IF c \in covered THEN 0 ELSE IF c \in m_tags[lvl + 1] THEN TagOne ELSE 0]

\* write_checkpoint_file, lines 2632-2643: the group of level lvl
ChkLevelGroup(lvl) ==
  [boxes |-> amr_grids[lvl + 1], solver |-> <<"ts_data", lvl>>,
   tagged_cells |-> TaggedCellsField(lvl)]

\* write_checkpoint_file
WriteCheckpointFile ==
  /\ cpc = "live"
  /\ chk_file' = [header |-> ChkHeader,
                  levels |-> [lvl \in 0..FinestChkLevel |-> ChkLevelGroup(lvl)]]
  /\ at_write' = [time |-> m_time, dt |-> m_dt, step |-> m_step, dx0 |-> amr_dx0,
                  finest_level |-> finest_level, grids |-> amr_grids, tags |-> m_tags]
  /\ cpc' = "written"
  /\ UNCHANGED <<amr_dx0, amr_grids, m_tags, covered, m_max_chk_depth, boxes, chk_log>>
  /\ UNCHANGED <<sharedVars, runVars, regridVars, tagVars, dirVars>>

\* A new job is started with driver.restart set: the constructor (lines 535-536)
\* leaves m_step = 0 and m_time = 0.0, the mesh has its domains but no grids, and
\* the configured coarsest spacing is whatever the input file of the new job gives.
Restart ==
  /\ cpc = "written"
  /\ m_step' = 0
  /\ m_time' = 0
  /\ m_dt' = 0
  /\ finest_level' = -1
  /\ amr_grids' = <<>>
  /\ m_tags' = <<>>
  /\ amr_dx0' \in DxValues
  /\ cpc' = "read_header"
  /\ UNCHANGED <<max_amr_depth, max_sim_depth, pc, covered, m_max_chk_depth, chk_file,
                 at_write, boxes, chk_log>>
  /\ UNCHANGED <<runVars, regridVars, tagVars, dirVars>>

\* read_checkpoint_file, line 995: the condition !coarsest_dx == m_amr->get_dx()[0].
\* The negation applies to coarsest_dx: it yields true (1.0) for 0.0 and false
\* (0.0) for any other value, and that is compared with dx[0].
DxTestAborts(coarsest_dx, dx0) == (IF coarsest_dx = 0 THEN 1 ELSE 0) = dx0

\* read_checkpoint_file, lines 983-997: the header is read and the spacing tested
ReadHeader ==
  /\ cpc = "read_header"
  /\ m_time' = chk_file.header.time
  /\ m_dt' = chk_file.header.dt
  /\ m_step' = chk_file.header.step
  /\ IF DxTestAborts(chk_file.header.coarsest_dx, amr_dx0)
     THEN /\ cpc' = "aborted"
          /\ chk_log' = <<"read_header", "abort_dx">>
     ELSE /\ cpc' = "read_grids"
          /\ chk_log' = <<"read_header">>
  /\ UNCHANGED <<finest_level, max_amr_depth, max_sim_depth, pc, amr_dx0, amr_grids, m_tags,
                 covered, m_max_chk_depth, chk_file, at_write, boxes>>
  /\ UNCHANGED <<runVars, regridVars, tagVars, dirVars>>

\* The levels 0..n of the file that have a box list, up to the first that has none
RECURSIVE LevelsRead(_, _)
LevelsRead(lvl, n) ==
  IF lvl > n \/ lvl \notin DOMAIN chk_file.levels
  THEN <<>>
  ELSE <<chk_file.levels[lvl].boxes>> \o LevelsRead(lvl + 1, n)

\* ReadGrids handing the box lists read so far to the mesh before it tests for a missing one
ReadGridsAdopting ==
  /\ cpc = "read_grids"
  /\ boxes' = LevelsRead(0, chk_file.header.finest_level)
  /\ amr_grids' = boxes'
  /\ IF Len(boxes') < chk_file.header.finest_level + 1
     THEN /\ cpc' = "aborted"
          /\ chk_log' = chk_log \o <<"read_grids", "abort_no_grids">>
     ELSE /\ cpc' = "define_amr"
          /\ chk_log' = Append(chk_log, "read_grids")
  /\ UNCHANGED <<amr_dx0, m_tags, covered, m_max_chk_depth, chk_file, at_write>>
  /\ UNCHANGED <<sharedVars, runVars, regridVars, tagVars, dirVars>>

\* read_checkpoint_file, lines 999-1009: the box list of every level named by the
\* header is read; a level without one is a fatal error
ReadGrids ==
  /\ cpc = "read_grids"
  /\ boxes' = LevelsRead(0, chk_file.header.finest_level)
  /\ IF Len(boxes') < chk_file.header.finest_level + 1
     THEN /\ cpc' = "aborted"
          /\ chk_log' = chk_log \o <<"read_grids", "abort_no_grids">>
     ELSE /\ cpc' = "define_amr"
          /\ chk_log' = Append(chk_log, "read_grids")
  /\ UNCHANGED <<amr_dx0, amr_grids, m_tags, covered, m_max_chk_depth, chk_file, at_write>>
  /\ UNCHANGED <<sharedVars, runVars, regridVars, tagVars, dirVars>>

\* read_checkpoint_file, lines 1011-1014: the mesh adopts the topology read
DefineAmr ==
  /\ cpc = "define_amr"
  /\ finest_level' = chk_file.header.finest_level
  /\ amr_grids' = boxes
  /\ chk_log' = chk_log \o <<"set_finest_level", "set_grids">>
  /\ cpc' = "setup_solvers"
  /\ UNCHANGED <<m_time, m_dt, m_step, max_amr_depth, max_sim_depth, pc>>
  /\ UNCHANGED <<amr_dx0, m_tags, covered, m_max_chk_depth, chk_file, at_write, boxes>>
  /\ UNCHANGED <<runVars, regridVars, tagVars, dirVars>>

\* read_checkpoint_file, line 1017: m_timestepper->setup_solvers()
SetupSolvers ==
  /\ cpc = "setup_solvers"
  /\ chk_log' = Append(chk_log, "ts_setup_solvers")
  /\ cpc' = "allocate_internals"
  /\ UNCHANGED <<amr_dx0, amr_grids, m_tags, covered, m_max_chk_depth, chk_file, at_write,
                 boxes>>
  /\ UNCHANGED <<sharedVars, runVars, regridVars, tagVars, dirVars>>

\* read_checkpoint_file, line 1020, and allocate_internals: empty tags on every level
AllocateInternals ==
  /\ cpc = "allocate_internals"
  /\ m_tags' = [i \in 1..(finest_level + 1) |-> {}]
  /\ chk_log' = Append(chk_log, "allocate_internals")
  /\ cpc' = "read_levels"
  /\ UNCHANGED <<amr_dx0, amr_grids, covered, m_max_chk_depth, chk_file, at_write, boxes>>
  /\ UNCHANGED <<sharedVars, runVars, regridVars, tagVars, dirVars>>

\* ReadCheckpointLevel taking only a value above 1.0 as tagged
ReadCheckpointLevelAboveOne(lvl) ==
  m_tags[lvl + 1] \cup
    {c \in CellsOf(amr_grids[lvl + 1]) : chk_file.levels[lvl].tagged_cells[c] > TagOne}

\* read_checkpoint_level: the cells of level lvl whose stored value is above the
\* threshold are added to the (empty) tags of the level
ReadCheckpointLevel(lvl) ==
  m_tags[lvl + 1] \cup
    {c \in CellsOf(amr_grids[lvl + 1]) : chk_file.levels[lvl].tagged_cells[c] > TagThreshold}

\* ReadLevelCalls with the driver's tags read before the time stepper's data
RECURSIVE ReadLevelCallsTagsFirst(_)
ReadLevelCallsTagsFirst(lvl) ==
  IF lvl > finest_level THEN <<>>
  ELSE <<"read_checkpoint_level", "ts_read_checkpoint_data">> \o ReadLevelCallsTagsFirst(lvl + 1)

\* The calls of the loop of read_checkpoint_file from level lvl on
RECURSIVE ReadLevelCalls(_)
ReadLevelCalls(lvl) ==
  IF lvl > finest_level THEN <<>>
  ELSE <<"ts_read_checkpoint_data", "read_checkpoint_level">> \o ReadLevelCalls(lvl + 1)

\* read_checkpoint_file, lines 1022-1035: level by level, the time stepper and then
\* the driver read their data
ReadLevels ==
  /\ cpc = "read_levels"
  /\ m_tags' = [i \in 1..(finest_level + 1) |-> ReadCheckpointLevel(i - 1)]
  /\ chk_log' = chk_log \o ReadLevelCalls(0)
  /\ cpc' = "restarted"
  /\ UNCHANGED <<amr_dx0, amr_grids, covered, m_max_chk_depth, chk_file, at_write, boxes>>
  /\ UNCHANGED <<sharedVars, runVars, regridVars, tagVars, dirVars>>

ChkNext ==
  \/ WriteCheckpointFile
  \/ Restart
  \/ ReadHeader
  \/ ReadGrids
  \/ DefineAmr
  \/ SetupSolvers
  \/ AllocateInternals
  \/ ReadLevels

SpecChk == ChkInit /\ [][ChkNext]_vars

\* ------------------------------------------------------------------------
\* The tags on the cells: setup_fresh (parse_geo_refinement, get_geom_tags, the
\* first mesh build) and one regrid call (tag_cells, cache_tags, m_amr->regrid,
\* regrid_internals), for all processes at once
\* ------------------------------------------------------------------------

\* m_celltagger->get_buffer() of the cell tagger explored
TaggerBuffer == 1

\* m_amr->get_irreg_growth() of the mesh explored
IrregGrowth == 0

\* ebis_gas->irregCells of the geometry explored: an electrode surface in cell 1
\* and a dielectric surface in cell 2
GasIrregCells == {1, 2}

\* ebis_sol->irregCells of the geometry explored
SolIrregCells == {2}

\* m_mfis->interface_region of the geometry explored
InterfaceRegion == {2}

\* The box lists a level above the base level can have: those of BoxLists, and
\* one that leaves cell 2 without a box
TagBoxLists == BoxLists \cup { << <<1, 1>> >> }

\* The geo coarseners explored: none, and one box (cell 2) with level 0
Coarseners == { <<>>, << [box |-> <<2, 2>>, level |-> 0] >> }

\* Values of driver.refine_geometry and of the six fine controls refine_*: all
\* defaulted, no geometric refinement, and electrodes refined beyond the mesh
RefineOptions ==
  { <<-1, <<-1, -1, -1, -1, -1, -1>> >>,
    <<0, <<-1, -1, -1, -1, -1, -1>> >>,
    <<1, <<MaxDepth + 1, -1, -1, -1, -1, -1>> >> }

\* parse_geo_refinement: the six depths handed to set_geom_refinement_depth
ParseGeoDepths(refine_geometry, fine) ==
  LET depth == IF refine_geometry < 0 THEN max_amr_depth ELSE refine_geometry
  IN  [i \in 1..6 |-> IF fine[i] < 0 THEN depth ELSE fine[i]]

\* set_geom_refinement_depth, lines 1460-1465: the six m_*_tag_depth
TagDepths(a_depth) == [i \in 1..6 |-> Min(a_depth[i], max_amr_depth)]

\* set_geom_refinement_depth, lines 1468-1474: m_geom_tag_depth after the first n
\* of the six Max statements
RECURSIVE GeomTagDepth(_, _)
GeomTagDepth(a_depth, n) ==
  IF n = 0 THEN 0 ELSE Max(GeomTagDepth(a_depth, n - 1), a_depth[n])

\* IntVectSet::grow: the cells within r cells of a cell of S
Grow(S, r) == UNION {{c + d : d \in (-r)..r} : c \in S}

\* get_geom_tags, lines 673-740: the tags of level lvl before coarsening and growth
IrregTags(lvl) ==
  LET all_irreg  == (GasIrregCells \cup SolIrregCells) \ InterfaceRegion
      cond_tags  == IF m_tag_depths[1] > lvl THEN all_irreg ELSE {}
      diel_tags  == IF m_tag_depths[2] > lvl THEN SolIrregCells ELSE {}
      gas_solid_tags == IF m_tag_depths[3] > lvl THEN GasIrregCells \ InterfaceRegion ELSE {}
      gas_diel_tags  == IF m_tag_depths[4] > lvl THEN InterfaceRegion ELSE {}
      gas_tags   == IF m_tag_depths[5] > lvl THEN GasIrregCells ELSE {}
      solid_tags == IF m_tag_depths[6] > lvl THEN SolIrregCells \cap all_irreg ELSE {}
  IN  diel_tags \cup cond_tags \cup gas_diel_tags \cup gas_solid_tags \cup gas_tags \cup solid_tags

\* The cells of the box of a coarsener entry
BoxCells(o) == o.box[1]..o.box[2]

\* geo_coarsener::coarsen_tags: inside the box of an entry the tags of the levels
\* above the level of the entry are removed
CoarsenTags(t) ==
  [i \in DOMAIN t |->
     t[i] \ UNION {BoxCells(m_geocoarsen[k]) : k \in {j \in DOMAIN m_geocoarsen :
                                                        i - 1 > m_geocoarsen[j].level}}]

\* The process owning box i of a box list the mesh has balanced with offset s
BoxOwners(bl, s) == [i \in 1..Len(bl) |-> ((i + s) % NProcs) + 1]

\* The cells of level lvl in the boxes that process p owns
LocalCells(p, lvl) ==
  UNION {amr_grids[lvl + 1][i][1]..amr_grids[lvl + 1][i][2] :
           i \in {j \in 1..Len(amr_grids[lvl + 1]) : owner[lvl + 1][j] = p}}

TagInit ==
  /\ m_time = 0
  /\ m_dt = 0
  /\ m_step = 0
  /\ max_amr_depth = MaxDepth
  /\ max_sim_depth = MaxDepth
  /\ finest_level = -1
  /\ RunIdle
  /\ has_tagger \in BOOLEAN
  /\ calls = <<>>
  /\ ncalls = [p \in Procs |-> 0]
  /\ rpc = [p \in Procs |-> "idle"]
  /\ stages = [p \in Procs |-> <<>>]
  /\ got_new_tags = [p \in Procs |-> FALSE]
  /\ tag_level = [p \in Procs |-> -1]
  /\ branches = [p \in Procs |-> <<>>]
  /\ ts_alloc = [p \in Procs |-> TRUE]
  /\ ts_cached = [p \in Procs |-> FALSE]
  /\ tags_alloc = [p \in Procs |-> TRUE]
  /\ cache_alloc = [p \in Procs |-> FALSE]
  /\ amr_args = <<>>
  /\ nreduce = [p \in Procs |-> 0]
  /\ ChkIdle
  /\ m_allow_coarsen \in BOOLEAN
  /\ m_geocoarsen \in Coarseners
  /\ m_tag_depths = <<>>
  /\ m_geom_tag_depth = 0
  /\ m_geom_tags = <<>>
  /\ owner = <<>>
  /\ all_tags = <<>>
  /\ m_cached_tags = <<>>
  /\ pre_regrid = <<>>
  /\ tpc = "parse"
  /\ DirIdle

\* The variables of the checkpoint code that the tag actions leave alone
chkRest == <<amr_dx0, covered, m_max_chk_depth, chk_file, at_write, cpc, boxes, chk_log>>

\* The variables of the regrid pipeline that the tag actions leave alone
regridRest == <<calls, ncalls, rpc, stages, branches, ts_alloc, ts_cached, tags_alloc,
                cache_alloc, nreduce>>

\* parse_geo_refinement and set_geom_refinement_depth
ParseGeoRefinement ==
  /\ tpc = "parse"
  /\ \E o \in RefineOptions :
       LET a_depth == ParseGeoDepths(o[1], o[2])
       IN  /\ m_tag_depths' = TagDepths(a_depth)
           /\ m_geom_tag_depth' = GeomTagDepth(a_depth, 6)
  /\ tpc' = "get_geom_tags"
  /\ UNCHANGED <<m_allow_coarsen, m_geocoarsen, m_geom_tags, owner, all_tags, m_cached_tags,
                 pre_regrid>>
  /\ UNCHANGED <<sharedVars, runVars, regridVars, chkVars, dirVars>>

\* get_geom_tags: the irregular cells of every level below the depth of the mesh,
\* then the geo coarsener if there is one, then the growth
GetGeomTags ==
  /\ tpc = "get_geom_tags"
  /\ LET raw == [i \in 1..max_amr_depth |-> IrregTags(i - 1)]
         coarsened == IF m_geocoarsen # <<>> THEN CoarsenTags(raw) ELSE raw
     IN  m_geom_tags' = [i \in 1..max_amr_depth |-> Grow(coarsened[i], Max(1, IrregGrowth))]
  /\ tpc' = "setup_regrid"
  /\ UNCHANGED <<m_allow_coarsen, m_geocoarsen, m_tag_depths, m_geom_tag_depth, owner, all_tags,
                 m_cached_tags, pre_regrid>>
  /\ UNCHANGED <<sharedVars, runVars, regridVars, chkVars, dirVars>>

\* setup_fresh, lines 1950-1957: m_amr->regrid(m_geom_tags, 0, m_geom_tag_depth,
\* regsize, m_geom_tag_depth) builds the first grids, the base level covering the
\* domain, and allocate_internals gives every level empty tags
SetupFreshRegrid ==
  /\ tpc = "setup_regrid"
  /\ amr_args' = <<0, m_geom_tag_depth, m_geom_tag_depth>>
  /\ finest_level' \in NewFinestLevels(finest_level, amr_args'[1], amr_args'[3])
  /\ \E b0 \in BoxLists, b \in TagBoxLists :
       /\ amr_grids' = [i \in 1..(finest_level' + 1) |-> IF i = 1 THEN b0 ELSE b]
       /\ owner' = [i \in 1..(finest_level' + 1) |-> BoxOwners(amr_grids'[i], 0)]
  /\ m_tags' = [i \in 1..(finest_level' + 1) |-> {}]
  /\ tpc' = "tag_cells"
  /\ UNCHANGED <<m_allow_coarsen, m_geocoarsen, m_tag_depths, m_geom_tag_depth, m_geom_tags,
                 all_tags, m_cached_tags, pre_regrid>>
  /\ UNCHANGED <<m_time, m_dt, m_step, max_amr_depth, max_sim_depth, pc, runVars>>
  /\ UNCHANGED <<has_tagger, got_new_tags, tag_level, regridRest, chkRest, dirVars>>

\* cell_tagger::tag_cells: the tags a cell tagger can leave in a_cell_tags, which
\* holds every level up to the finest: cells of the grids of any of these levels
CellTagChoices ==
  {t \in SeqsOf(TagSets, finest_level + 1) :
     \A i \in 1..(finest_level + 1) : t[i] \subseteq CellsOf(amr_grids[i])}

\* get_finest_tag_level, lines 2262-2273: the finest level on which process p
\* holds a box with a tag of t
LocalTagLevel(p, t) ==
  LET tagged == {l \in 0..(Len(t) - 1) : t[l + 1] \cap LocalCells(p, l) # {}}
  IN  IF tagged = {} THEN -1 ELSE CHOOSE l \in tagged : \A k \in tagged : k <= l

\* AddsGeomTags without the policy that allows coarsening
AddsGeomTagsMonotonic(lvl, tl) == lvl < max_amr_depth

\* tag_cells, lines 2317-2332: whether the geometric tags are added on level lvl
\* when the finest level with a cell tag is tl
AddsGeomTags(lvl, tl) ==
  IF m_allow_coarsen THEN lvl <= tl ELSE lvl < max_amr_depth

\* What an element of m_geom_tags beyond the end of the vector can be read as
GarbageTags == TagSets

\* tag_cells, lines 2320 and 2328: m_geom_tags[lvl].  get_geom_tags gives the
\* vector max_amr_depth elements, the levels 0..max_amr_depth - 1; a read beyond
\* them is undefined and yields g, if the process survives it
GeomTagsAt(lvl, g) == IF lvl < Len(m_geom_tags) THEN m_geom_tags[lvl + 1] ELSE g

\* tag_cells, lines 2317-2332: the read of m_geom_tags goes beyond the vector when
\* the finest level with a cell tag is tl
GeomTagsOutOfRange(tl) ==
  \E lvl \in 0..finest_level : AddsGeomTags(lvl, tl) /\ lvl >= Len(m_geom_tags)

\* The cell tags t that process p gathers on level lvl, grown by the buffer of the
\* cell tagger: tag_cells, lines 2302-2313
GatheredTags(p, t, lvl) ==
  LET gathered == t[lvl + 1] \cap LocalCells(p, lvl)
  IN  IF has_tagger THEN Grow(gathered, TaggerBuffer) ELSE gathered

\* AllTags with the geometric tags added up to the finest level on which the
\* process itself holds a cell tag
AllTagsOnLocalLevel(p, t, tl, g) ==
  [i \in 1..(finest_level + 1) |->
     IF AddsGeomTags(i - 1, LocalTagLevel(p, t))
     THEN GatheredTags(p, t, i - 1) \cup GeomTagsAt(i - 1, g)
     ELSE GatheredTags(p, t, i - 1)]

\* tag_cells, lines 2302-2332, on process p: the cell tags t of its own boxes are
\* gathered and grown by the buffer, and the geometric tags are added
AllTags(p, t, tl, g) ==
  [i \in 1..(finest_level + 1) |->
     IF AddsGeomTags(i - 1, tl)
     THEN GatheredTags(p, t, i - 1) \cup GeomTagsAt(i - 1, g)
     ELSE GatheredTags(p, t, i - 1)]

\* regrid, lines 1066-1082, and tag_cells on all processes: the cell tagger, if
\* there is one, changes the tags or leaves them and answers accordingly (the
\* same on every process), the finest level with a cell tag is reduced over the
\* processes, and regrid returns if there are no new tags.  A read beyond the
\* end of m_geom_tags kills the job or yields some set of cells.
TagCells ==
  /\ tpc = "tag_cells"
  /\ \E t \in (IF has_tagger THEN CellTagChoices ELSE {m_tags}) :
       LET tl == MaxOver([p \in Procs |-> LocalTagLevel(p, t)], NProcs)
       IN  /\ m_tags' = t
           /\ tag_level' = [p \in Procs |-> tl]
           /\ \/ /\ GeomTagsOutOfRange(tl)
                 /\ tpc' = "crashed"
                 /\ UNCHANGED <<got_new_tags, all_tags>>
              \/ \E g \in (IF GeomTagsOutOfRange(tl) THEN GarbageTags ELSE {{}}) :
                   /\ got_new_tags' = [p \in Procs |-> t # m_tags]
                   /\ all_tags' = [p \in Procs |-> AllTags(p, t, tl, g)]
                   /\ tpc' = IF t # m_tags THEN "cache_tags" ELSE "done"
  /\ UNCHANGED <<m_allow_coarsen, m_geocoarsen, m_tag_depths, m_geom_tag_depth, m_geom_tags,
                 owner, m_cached_tags, pre_regrid>>
  /\ UNCHANGED <<sharedVars, runVars, amr_grids>>
  /\ UNCHANGED <<has_tagger, amr_args, regridRest, chkRest, dirVars>>

\* regrid, lines 1086-1091, and cache_tags: the tags of every level are copied
\* onto a boolean mask on the current grids
CacheTagsOnCells ==
  /\ tpc = "cache_tags"
  /\ m_cached_tags' = [i \in 1..(finest_level + 1) |->
                         [c \in CellsOf(amr_grids[i]) |-> c \in m_tags[i]]]
  /\ pre_regrid' = [tags |-> m_tags, grids |-> amr_grids, owner |-> owner,
                    finest |-> finest_level]
  /\ tpc' = "amr_regrid"
  /\ UNCHANGED <<m_allow_coarsen, m_geocoarsen, m_tag_depths, m_geom_tag_depth, m_geom_tags,
                 owner, all_tags>>
  /\ UNCHANGED <<sharedVars, runVars, regridVars, chkVars, dirVars>>

\* regrid, lines 1096-1099, called as the initial regrids of setup_fresh call it:
\* the mesh rebuilds and balances the levels from lmin on
AmrRegridOnCells ==
  /\ tpc = "amr_regrid"
  /\ amr_args' = AmrRegridArgs([lmin |-> InitialRegridLmin, lmax |-> finest_level],
                               finest_level)
  /\ finest_level' \in NewFinestLevels(finest_level, amr_args'[1], amr_args'[3])
  /\ \E b \in TagBoxLists, s \in 0..(NProcs - 1) :
       /\ amr_grids' = [i \in 1..(finest_level' + 1) |->
                          IF i - 1 < amr_args'[1] /\ i <= Len(amr_grids)
                          THEN amr_grids[i] ELSE b]
       /\ owner' = [i \in 1..(finest_level' + 1) |->
                      IF i - 1 < amr_args'[1] /\ i <= Len(amr_grids)
                      THEN owner[i] ELSE BoxOwners(b, s)]
  /\ tpc' = "regrid_internals"
  /\ UNCHANGED <<m_allow_coarsen, m_geocoarsen, m_tag_depths, m_geom_tag_depth, m_geom_tags,
                 all_tags, m_cached_tags, pre_regrid>>
  /\ UNCHANGED <<m_time, m_dt, m_step, max_amr_depth, max_sim_depth, pc, runVars>>
  /\ UNCHANGED <<has_tagger, got_new_tags, tag_level, regridRest, m_tags, chkRest, dirVars>>

\* LevelData::copyTo: on the cells that both layouts hold, dst takes the value of
\* src, whichever process owns them; the other cells of dst are left alone
CopyTo(src, dst) == [c \in DOMAIN dst |-> IF c \in DOMAIN src THEN src[c] ELSE dst[c]]

\* RestoredLevels without the coarser of the two finest levels
RestoredLevelsBelow(a_old_finest_level, a_new_finest_level) ==
  0..(Min(a_old_finest_level, a_new_finest_level) - 1)

\* regrid_internals, line 1130: the levels whose cached tags are copied back
RestoredLevels(a_old_finest_level, a_new_finest_level) ==
  0..Min(a_old_finest_level, a_new_finest_level)

\* regrid, line 1104, and regrid_internals: allocate_internals gives every level
\* of the new grids empty tags, and on the levels restored the cached mask is
\* copied onto the new grids and its true cells are added to the tags
RegridInternalsOnCells ==
  /\ tpc = "regrid_internals"
  /\ m_tags' = [i \in 1..(finest_level + 1) |->
                  IF i - 1 \in RestoredLevels(pre_regrid.finest, finest_level)
                  THEN LET tmp == CopyTo(m_cached_tags[i],
                                         [c \in CellsOf(amr_grids[i]) |-> FALSE])
                       IN  {c \in CellsOf(amr_grids[i]) : tmp[c]}
                  ELSE {}]
  /\ tpc' = "done"
  /\ UNCHANGED <<m_allow_coarsen, m_geocoarsen, m_tag_depths, m_geom_tag_depth, m_geom_tags,
                 owner, all_tags, m_cached_tags, pre_regrid>>
  /\ UNCHANGED <<sharedVars, runVars, regridVars, amr_grids, chkRest, dirVars>>

TagNext ==
  \/ ParseGeoRefinement
  \/ GetGeomTags
  \/ SetupFreshRegrid
  \/ TagCells
  \/ CacheTagsOnCells
  \/ AmrRegridOnCells
  \/ RegridInternalsOnCells

SpecTags == TagInit /\ [][TagNext]_vars

\* ------------------------------------------------------------------------
\* driver::parse_output_directory -- the output directories, on every process
\* ------------------------------------------------------------------------

\* The process with procID() == 0
Rank0 == 1

\* The directories of the mkdir -p commands, in the order of the commands: the
\* output directory itself and its subdirectories plt, geo, chk and mpi
OutputDirs == <<"output", "plt", "geo", "chk", "mpi">>

\* What system() returns for a command: 0, or a status that is not 0
ExitStatuses == {0, 1}

DirInit ==
  /\ m_time = 0
  /\ m_dt = 0
  /\ m_step = 0
  /\ max_amr_depth = MaxDepth
  /\ max_sim_depth = MaxDepth
  /\ finest_level = 0
  /\ RunIdle
  /\ RegridIdle
  /\ ChkIdle
  /\ TagIdle
  /\ success = [p \in Procs |-> 0]
  /\ ncmd = 0
  /\ made = {}
  /\ failed = {}
  /\ dpc = [p \in Procs |-> "entered"]

\* The variables that parse_output_directory leaves alone
dirRest == <<sharedVars, runVars, regridVars, chkVars, tagVars>>

\* parse_output_directory, lines 1566-1597: rank 0 runs its next mkdir -p command
\* and stores what system() returns in success; mkdir -p makes the output
\* directory along with the subdirectory
Mkdir ==
  /\ dpc[Rank0] = "entered"
  /\ ncmd < Len(OutputDirs)
  /\ ncmd' = ncmd + 1
  /\ \E status \in ExitStatuses :
       /\ success' = [success EXCEPT ![Rank0] = status]
       /\ IF status = 0
          THEN /\ made' = made \cup {OutputDirs[1], OutputDirs[ncmd']}
               /\ UNCHANGED failed
          ELSE /\ failed' = failed \cup {OutputDirs[ncmd']}
               /\ UNCHANGED made
  /\ UNCHANGED <<dpc, dirRest>>

\* parse_output_directory, line 1600: process p calls MPI_Barrier, rank 0 after
\* its last command and the other processes at once
EnterBarrier(p) ==
  /\ dpc[p] = "entered"
  /\ p = Rank0 => ncmd = Len(OutputDirs)
  /\ dpc' = [dpc EXCEPT ![p] = "barrier"]
  /\ UNCHANGED <<success, ncmd, made, failed, dirRest>>

\* MPI_Barrier returns once every process has called it
Barrier ==
  /\ \A p \in Procs : dpc[p] = "barrier"
  /\ dpc' = [p \in Procs |-> "test"]
  /\ UNCHANGED <<success, ncmd, made, failed, dirRest>>

\* parse_output_directory, lines 1601-1603: the test of the local success;
\* MayDay::Abort ends the whole job
SuccessTest(p) ==
  /\ dpc[p] = "test"
  /\ dpc' = IF success[p] # 0
            THEN [q \in Procs |-> "aborted"]
            ELSE [dpc EXCEPT ![p] = "returned"]
  /\ UNCHANGED <<success, ncmd, made, failed, dirRest>>

DirNext ==
  \/ Mkdir
  \/ \E p \in Procs : EnterBarrier(p)
  \/ Barrier
  \/ \E p \in Procs : SuccessTest(p)

SpecDirs == DirInit /\ [][DirNext]_vars

\* ------------------------------------------------------------------------
\* Properties
\* ------------------------------------------------------------------------

IsPrefix(s, t) == Len(s) <= Len(t) /\ s = SubSeq(t, 1, Len(s))

\* The names of the calls in a sequence of events
EventNames == {events[i][1] : i \in 1..Len(events)}

\* The positions of run after the regrid decision of the iteration has been carried out
AfterRegridDecision == pc \in {"compute_dt", "stall_test", "clamp_dt", "advance", "output"}

\* The positions of run inside the loop
InLoop ==
  /\ iter.n >= 1
  /\ pc \in {"regrid_test", "regrid_call", "compute_dt", "stall_test", "clamp_dt", "advance",
             "output", "loop_test"}

\* Process p has passed the test on got_new_tags in its current regrid call
PastBranch(p) == ncalls[p] > 0 /\ Len(branches[p]) = ncalls[p]

\* The stages of a regrid call that found new tags
FullPipeline(seed) ==
  <<"tag_cells", "cache_tags", "ts_cache", "deallocate_internals", "ts_deallocate",
    "amr_regrid", "regrid_internals", "ts_regrid">>
  \o (IF seed THEN <<"ts_initial_data">> ELSE <<>>) \o <<"tagger_regrid">>

C2_SameBranch ==
  \A p, q \in Procs :
    \A k \in 1..Min(Len(branches[p]), Len(branches[q])) : branches[p][k] = branches[q][k]

\* C3: a regrid call in which the cell tagger reports no change (or there is no
\* cell tagger) returns having called nothing but the tag computation and, iff
\* seeding was asked for, TimeStepper.initial_data: no TimeStepper cache,
\* deallocate or regrid, no mesh regrid, no CellTagger.regrid, no output file; the
\* time stepper's storage stays allocated and the mesh levels are unchanged.
C3_NoOpReturn ==
  \A p \in Procs :
    (PastBranch(p) /\ ~got_new_tags[p]) =>
      /\ stages[p] = <<"tag_cells">> \o
                     (IF Call(p).use_initial_data THEN <<"ts_initial_data">> ELSE <<>>)
      /\ rpc[p] = "idle"
      /\ ts_alloc[p]
      /\ ~ts_cached[p] \/ \E k \in 1..Len(branches[p]) : branches[p][k] = "regrid"
      /\ finest_level = Call(p).finest

\* A process has returned from a seeding regrid call without new tags, with no tagger attached
C3_Witness ==
  \E p \in Procs :
    /\ PastBranch(p)
    /\ ~got_new_tags[p]
    /\ rpc[p] = "idle"
    /\ Call(p).use_initial_data
    /\ ~has_tagger

\* The restart has run to its end, one way or the other
RestartEnded == cpc \in {"restarted", "aborted"}

\* C4: a checkpoint written in any driver state and with any max_chk_depth can be
\* restarted from under the same configuration, and the restart yields the time,
\* dt, step and the box list of every level 0..finestLevel of the time of writing.
C4_RoundTrip ==
  (RestartEnded /\ amr_dx0 = at_write.dx0) =>
    /\ cpc = "restarted"
    /\ m_time = at_write.time
    /\ m_dt = at_write.dt
    /\ m_step = at_write.step
    /\ finest_level = at_write.finest_level
    /\ amr_grids = at_write.grids

\* C5: when the coarsest spacing of the checkpoint header differs from the
\* configured one, read_checkpoint_file aborts with the configuration error,
\* before the mesh adopts the stored box lists and before setup_solvers.
C5_ResolutionGuard ==
  (cpc \notin {"live", "written", "read_header"} /\ chk_file.header.coarsest_dx # amr_dx0) =>
    /\ cpc = "aborted"
    /\ chk_log = <<"read_header", "abort_dx">>

\* C6: an iteration whose time step (as obtained from the time stepper) is below
\* 1e-5 of the first dt of the run never gets past the stall test; it writes a
\* plot file, then a checkpoint, then aborts, without calling advance and with
\* the time it had at the top of the iteration.  Nothing else aborts the loop.
C6_StallAbort ==
  /\ pc = "clamp_dt" => ~BelowFraction(m_dt, init_dt)
  /\ pc = "aborted" =>
       /\ BelowFraction(m_dt, init_dt)
       /\ Len(events) >= 3
       /\ SubSeq(events, Len(events) - 2, Len(events)) =
            << <<"plot", m_step, m_time>>, <<"chk", m_step, m_time, m_dt>>, <<"abort">> >>
       /\ "advance" \notin EventNames
       /\ m_time = iter.time

\* The loop has aborted on a time step of 0 after a first time step of StallFactor
C6_Witness ==
  /\ pc = "aborted"
  /\ m_dt = 0
  /\ init_dt = StallFactor
  /\ iter.n >= 2
  /\ "advance" \notin EventNames

\* C7: time <= end in every state of the loop, for every dt that compute_dt
\* proposes and every dt that advance reports.
C7_TimeWithinEnd == InLoop => m_time <= a_end_time

\* The advance events of the iteration in which advance reported more than it was asked for
Overshoots == {i \in 1..Len(events) : events[i][1] = "advance" /\ events[i][3] > events[i][2]}

\* C7 as amended: the dt handed to advance never takes time beyond the end time,
\* and time <= end holds in every state of the loop unless advance has reported a
\* larger dt than it was asked for.
C7_RequestWithinEnd ==
  InLoop =>
    /\ pc = "advance" => m_time + m_dt <= a_end_time
    /\ Overshoots = {} => m_time <= a_end_time

\* The step about to be taken has been shortened to end on the end time
C7_Witness ==
  /\ pc = "advance"
  /\ last_step
  /\ m_time = 2 * StallFactor
  /\ m_dt = 1
  /\ m_time + m_dt = a_end_time

RegridBeforeAdvance ==
  /\ Len(events) >= 1
  /\ events[1][1] = "regrid"
  /\ \A i \in 1..Len(events) : events[i][1] = "advance" => i > 1

C10_NonRecursiveInterval ==
  (AfterRegridDecision /\ iter.n > 1 /\ CanRegrid /\ ~m_recursive_regrid
     /\ m_regrid_interval > 0) =>
    /\ iter.step % m_regrid_interval = 0 =>
         /\ Len(events) >= 1
         /\ events[1] = <<"regrid", 1, iter.finest>>
    /\ (iter.step % m_regrid_interval # 0 /\ ~need_regrid) => "regrid" \notin EventNames

\* Step 2 with interval 2 and finest level 2 has called regrid(1, 2) without being forced
C10_Witness ==
  /\ pc = "compute_dt"
  /\ iter.n > 1
  /\ ~m_recursive_regrid
  /\ m_regrid_interval = 2
  /\ iter.step = 2
  /\ ~need_regrid
  /\ events = << <<"regrid", 1, 2>> >>

\* iref of level l in a window whose finest level is f: the product of the
\* refinement ratios between l and f
RECURSIVE Iref(_, _)
Iref(l, f) == IF l >= f THEN 1 ELSE RefRat[l + 1] * Iref(l + 1, f)

\* The regrid events of the current iteration of the loop
LoopRegrids == {i \in 1..Len(events) : iter.n >= 1 /\ events[i][1] = "regrid"}

\* Every level of the window of regrid event i passes its own test at the step of the iteration
WindowLevelsPass(i) ==
  \A l \in events[i][2]..events[i][3] :
    iter.step % (Iref(l, events[i][3]) * m_regrid_interval) = 0

\* C11: recursive policy: every regrid the loop issues at step s with window
\* [lmin, lmax] has s mod (iref_l * regrid_interval) = 0 for every level l of
\* the window.
C11_RecursiveWindow ==
  m_recursive_regrid => \A i \in LoopRegrids : WindowLevelsPass(i)

\* C11 as amended: the same for the regrids issued at a step that is a multiple
\* of the regrid interval, whose window also starts at the coarsest level that
\* passes; a regrid forced by need_to_regrid at any other step has the window
\* [1, finest level].
C11_RecursiveWindowOnInterval ==
  m_recursive_regrid =>
    \A i \in LoopRegrids :
      /\ events[i][3] = iter.finest
      /\ IF iter.step % m_regrid_interval = 0
         THEN /\ WindowLevelsPass(i)
              /\ events[i][2] > 1 =>
                   iter.step % (Iref(events[i][2] - 1, events[i][3]) * m_regrid_interval) # 0
         ELSE /\ need_regrid
              /\ events[i][2] = 1

\* Step 2 with interval 1 on three levels: level 1 passes (2 mod 2 = 0) and the window is [1, 2]
C11_Witness ==
  /\ pc = "compute_dt"
  /\ m_recursive_regrid
  /\ m_regrid_interval = 1
  /\ iter.step = 2
  /\ iter.finest = 2
  /\ events = << <<"regrid", 1, 2>> >>

\* Process p is in, or has returned from, a regrid call whose mesh regrid has been done
MeshRegridDone(p) ==
  ncalls[p] > 0 /\ \E i \in 1..Len(stages[p]) : stages[p][i] = "amr_regrid"

\* C12: after a regrid call the finest level is at most the finest level at the
\* entry of the call plus one, and the cap handed to m_amr->regrid is that
\* level plus one in every call.
C12_SingleLevelGrowth ==
  \A p \in Procs :
    /\ ncalls[p] > 0 => finest_level <= Call(p).finest + 1
    /\ MeshRegridDone(p) => amr_args[3] = Call(p).finest + 1

\* A regrid call on a mesh of one level has added a level
C12_Witness ==
  \E p \in Procs :
    /\ MeshRegridDone(p)
    /\ rpc[p] = "idle"
    /\ Call(p).finest = 0
    /\ finest_level = 1

\* C13: in a regrid(lmin, lmax) call the box lists of the levels 0..lmin-1 are
\* at every point of the call, and after it, those of the entry of the call, and
\* m_amr->regrid is handed lmin and lmax as the call received them.
C13_Locality ==
  \A p \in Procs :
    ncalls[p] > 0 =>
      /\ \A l \in 0..(Call(p).lmin - 1) :
           l <= Call(p).finest =>
             /\ l <= finest_level
             /\ amr_grids[l + 1] = Call(p).grids[l + 1]
      /\ MeshRegridDone(p) => (amr_args[1] = Call(p).lmin /\ amr_args[2] = Call(p).lmax)

\* A regrid(2, 2) call has returned with another box list on level 2, levels 0 and 1 as before
C13_Witness ==
  \E p \in Procs :
    /\ MeshRegridDone(p)
    /\ rpc[p] = "idle"
    /\ Call(p).lmin = 2
    /\ finest_level = 2
    /\ amr_grids[3] # Call(p).grids[3]
    /\ amr_grids[2] = Call(p).grids[2]

\* C14: every regrid issued by the initial-regrid loops of setup_fresh and
\* setup_for_restart and by the time loop, under either interval policy and
\* whether due by the interval or forced, has lmin >= 1.
C14_BaseLevelFixed ==
  /\ \A i \in 1..Len(events) : events[i][1] = "regrid" => events[i][2] >= 1
  /\ pc = "regrid_call" => RegridLmin >= 1

\* The setup of a restarted job has made its initial regrid of the levels 1..2 and run is entered
C14_Witness ==
  /\ pc = "run_entry"
  /\ m_restart
  /\ init_regrids_left = 0
  /\ events = << <<"regrid", 1, 2>> >>

\* The iteration has taken its step, with advance reporting the dt it was asked
\* for, and has gone through the output cadence
StepCompleted ==
  /\ pc = "loop_test"
  /\ "advance" \in EventNames
  /\ \A i \in 1..Len(events) : events[i][1] = "advance" => events[i][3] = events[i][2]

\* C15: after each completed step a plot file is written iff plot_interval > 0
\* and (step mod plot_interval = 0 or the step is the last of the run), and a
\* checkpoint iff checkpoint_interval > 0 and (step mod checkpoint_interval = 0
\* or the step is the last of the run), however the run ends (stated for the
\* steps in which advance reports the dt it was asked for).
C15_OutputCadence ==
  StepCompleted =>
    /\ ("plot" \in EventNames) <=>
         (m_plot_interval > 0 /\ (m_step % m_plot_interval = 0 \/ ~LoopCondition))
    /\ ("chk" \in EventNames) <=>
         (m_chk_interval > 0 /\ (m_step % m_chk_interval = 0 \/ ~LoopCondition))

\* C16: with plot_interval = 0 or checkpoint_interval = 0 the loop is not brought
\* down after a step, and the cadence writes no file of the kind switched off.
C16_ZeroIntervalDisables ==
  /\ (m_plot_interval = 0 \/ m_chk_interval = 0) => ~(pc = "crashed" /\ "advance" \in EventNames)
  /\ (m_plot_interval = 0 /\ InLoop) => "plot" \notin EventNames
  /\ (m_chk_interval = 0 /\ InLoop) => "chk" \notin EventNames

\* C17: when the loop is left without the stall abort, time >= end time or
\* step >= max_steps.
C17_ExitCondition ==
  (pc = "run_exit" /\ a_max_steps > 0) => (m_time >= a_end_time \/ m_step >= a_max_steps)

\* The advance events of the iteration that were asked to end on the end time
ClampedAdvances ==
  {i \in 1..Len(events) : events[i][1] = "advance" /\ events[i][2] = a_end_time - iter.time}

\* C17 as amended: when the loop is left without the stall abort, time >= end
\* time, or step >= max_steps, or the last step was flagged: the step was asked
\* to end on the end time, or the time is within 1e-5 dt of the end time.  The
\* only other ways out are the stall abort and the death of the process on a
\* remainder by an interval of zero.
C17_ExitConditionOrLastStep ==
  /\ (pc = "run_exit" /\ a_max_steps > 0) =>
       /\ m_time >= a_end_time \/ m_step >= a_max_steps \/ last_step
       /\ last_step =>
            \/ ClampedAdvances # {}
            \/ BelowFraction(Abs(m_time - a_end_time), m_dt)
  /\ pc = "aborted" => BelowFraction(m_dt, init_dt)
  /\ pc = "crashed" => (m_regrid_interval = 0 \/ m_plot_interval = 0 \/ m_chk_interval = 0)

\* The loop is left on the last-step flag, before the end time and before max_steps
C17_Witness ==
  /\ pc = "run_exit"
  /\ last_step
  /\ m_time < a_end_time
  /\ m_step < a_max_steps

\* The calls of a restart that reads the levels 0..f, from level lvl on
RECURSIVE LevelReads(_, _)
LevelReads(lvl, f) ==
  IF lvl > f THEN <<>>
  ELSE <<"ts_read_checkpoint_data", "read_checkpoint_level">> \o LevelReads(lvl + 1, f)

\* The calls of a restart from a file whose header names the finest level f
RestartCalls(f) ==
  <<"read_header", "read_grids", "set_finest_level", "set_grids", "ts_setup_solvers",
    "allocate_internals">> \o LevelReads(0, f)

\* The calls read_checkpoint_file has made, without the abort that ended it
RestartLog == IF cpc = "aborted" THEN SubSeq(chk_log, 1, Len(chk_log) - 1) ELSE chk_log

\* The names in RestartLog
RestartLogNames == {RestartLog[i] : i \in 1..Len(RestartLog)}

\* C18: read_checkpoint_file reads the header, then the box list of every level
\* 0..finestLevel, then has the mesh adopt them, and only then calls
\* setup_solvers; then it allocates the driver's storage, and then, level by
\* level, the time stepper reads its data before the driver reads its tags.
C18_RestartOrder ==
  cpc \notin {"live", "written"} =>
    /\ IsPrefix(RestartLog, RestartCalls(chk_file.header.finest_level))
    /\ cpc = "restarted" => RestartLog = RestartCalls(chk_file.header.finest_level)
    /\ "ts_setup_solvers" \in RestartLogNames =>
         /\ Len(boxes) = chk_file.header.finest_level + 1
         /\ finest_level = chk_file.header.finest_level
         /\ amr_grids = boxes

\* A restart from a file of three levels has run to its end
C18_Witness ==
  /\ cpc = "restarted"
  /\ finest_level = 2
  /\ Len(chk_log) = 12

\* The file lacks the box list of a level named by its header
GridsMissing ==
  \E l \in 0..chk_file.header.finest_level : l \notin DOMAIN chk_file.levels

\* C19: a restart from a file that lacks the box list of a level 0..finestLevel
\* named in its header ends in a fatal error before the mesh has adopted any
\* level or box list and before setup_solvers.
C19_MissingGridsAbort ==
  (cpc \notin {"live", "written", "read_header", "read_grids"} /\ GridsMissing) =>
    /\ cpc = "aborted"
    /\ chk_log[Len(chk_log)] \in {"abort_no_grids", "abort_dx"}
    /\ finest_level = -1
    /\ amr_grids = <<>>
    /\ RestartLogNames \subseteq {"read_header", "read_grids"}

\* The restart has aborted on a file whose header names level 2 and that holds level 0 only
C19_Witness ==
  /\ cpc = "aborted"
  /\ chk_file.header.finest_level = 2
  /\ Len(boxes) = 1
  /\ chk_log[Len(chk_log)] = "abort_no_grids"

\* C20: a run restarted from the checkpoint of step s goes, from step s on and
\* with the same answers of the collaborators, through the same regrids as the
\* run that wrote the checkpoint: in the iteration of step s that run calls
\* regrid when the step is a multiple of the interval or need_to_regrid answers
\* true, and so does the first iteration of the restarted run.
C20_ExactRestart ==
  (m_restart /\ iter.n = 1 /\ AfterRegridDecision /\ CanRegrid /\ m_regrid_interval > 0
     /\ (iter.step % m_regrid_interval = 0 \/ need_regrid)) => RegridBeforeAdvance

\* C21: when m_amr->regrid is entered inside regrid, the driver's tag storage on
\* the old layout has been released and the time stepper's deallocate has returned.
C21_FreedBeforeRebuild ==
  \A p \in Procs : rpc[p] = "amr_regrid" => (~tags_alloc[p] /\ ~ts_alloc[p])

\* C22: outside regrid, before the first call and after each call has returned,
\* no storage of the tag cache is allocated.
C22_CacheOnlyInRegrid ==
  \A p \in Procs : rpc[p] = "idle" => ~cache_alloc[p]

\* The MPI_Allreduce calls process p has to have completed: one for each tag
\* computation it has gone through
ReductionsDue(p) ==
  IF rpc[p] \in {"tag_cells", "allreduce"} THEN ncalls[p] - 1 ELSE ncalls[p]

\* C29: every tag computation makes the maximum-reduction exactly once on every
\* process, whatever the cell tagger answers, whether or not the process holds a
\* tagged patch and whether or not a cell tagger is attached; the processes
\* leave the reduction together.
C29_ReductionEveryCall ==
  /\ \A p \in Procs : nreduce[p] = ReductionsDue(p)
  /\ \A p, q \in Procs : ncalls[p] = ncalls[q] => (rpc[p] = "tags_done" => rpc[q] # "allreduce")

\* A job without a cell tagger has gone through a regrid call, and every process
\* has made the reduction
C29_Witness ==
  /\ ~has_tagger
  /\ \A p \in Procs : rpc[p] = "idle" /\ ncalls[p] = 1 /\ nreduce[p] = 1 /\ tag_level[p] = -1

\* C30: with regrid_interval = 0 the loop makes no regrid and is not brought down
\* by the regrid test: it runs its steps.
C30_ZeroRegridIntervalRuns ==
  m_regrid_interval = 0 =>
    /\ InLoop => "regrid" \notin EventNames
    /\ pc = "crashed" => "advance" \in EventNames

\* The advance events of the iteration that precede event i
AdvancesBefore(i) == {j \in 1..(i - 1) : events[j][1] = "advance"}

\* C26: every checkpoint written by run records the step at loop entry plus the
\* number of advance calls completed, and the time after the last completed
\* advance, on the cadence and on the stall-abort path.
C26_CheckpointStep ==
  \A i \in 1..Len(events) :
    (events[i][1] = "chk" /\ iter.n >= 1) =>
      /\ events[i][2] = advances.from + advances.done
      /\ events[i][3] = iter.time +
           (IF AdvancesBefore(i) = {} THEN 0
            ELSE events[CHOOSE j \in AdvancesBefore(i) : TRUE][3])

TagsHandedOver == tpc = "cache_tags"

\* C23: for every entry (box, level) of the geo coarsener and every level above
\* its level, the tags that tag_cells hands to m_amr->regrid (the cell tags grown
\* by the buffer, with the grown geometric tags) hold no cell of the box.
C23_OverrideOnFinalTags ==
  TagsHandedOver =>
    \A k \in DOMAIN m_geocoarsen, p \in Procs, l \in 0..finest_level :
      l > m_geocoarsen[k].level => all_tags[p][l + 1] \cap BoxCells(m_geocoarsen[k]) = {}

\* The process owning cell c of level l in the layout (grids, owners)
OwnerOf(grids, owners, l, c) ==
  owners[l + 1][CHOOSE i \in 1..Len(grids[l + 1]) : c \in grids[l + 1][i][1]..grids[l + 1][i][2]]

\* A regrid with changed tags has run to its end
RegridOnCellsDone == tpc = "done" /\ pre_regrid # <<>>

\* C24: after a regrid with changed tags, on every level up to the coarser of the
\* old and the new finest level a cell of the new grid is tagged iff it was
\* tagged before the regrid, whichever process owned it before and owns it now;
\* the levels above carry no tags.
C24_TagsSurviveRegrid ==
  RegridOnCellsDone =>
    /\ Len(m_tags) = finest_level + 1
    /\ \A l \in 0..finest_level :
         IF l <= Min(pre_regrid.finest, finest_level)
         THEN /\ m_tags[l + 1] \subseteq CellsOf(amr_grids[l + 1])
              /\ \A c \in CellsOf(amr_grids[l + 1]) :
                   c \in m_tags[l + 1] <=> c \in pre_regrid.tags[l + 1]
         ELSE m_tags[l + 1] = {}

\* After a regrid, cell 1 of level 1 is still tagged and has changed its owner,
\* cell 2 of level 1 was tagged and has lost its box, and the mesh has lost its
\* finest level
C24_Witness ==
  /\ RegridOnCellsDone
  /\ pre_regrid.finest = 2
  /\ finest_level = 1
  /\ pre_regrid.tags[2] = {1, 2}
  /\ m_tags[2] = {1}
  /\ OwnerOf(pre_regrid.grids, pre_regrid.owner, 1, 1) # OwnerOf(amr_grids, owner, 1, 1)

\* tag_cells has returned and regrid has not yet touched the tags
TagsComputed == tpc = "cache_tags" \/ (tpc = "done" /\ pre_regrid = <<>>)

\* The finest level on which any process holds a cell tag
FinestTaggedLevel == MaxOver([p \in Procs |-> LocalTagLevel(p, m_tags)], NProcs)

\* C25: under both policies the tags returned by tag_cells are empty on every
\* level above the finest level, over all processes, with a cell tag.
C25_EmptyAboveTagLevel ==
  TagsComputed =>
    \A p \in Procs, l \in 0..finest_level :
      l >= FinestTaggedLevel + 1 => all_tags[p][l + 1] = {}

\* C25 as amended: tag_cells works with the finest tagged level over all
\* processes; on the levels above it the tags returned are empty when coarsening
\* is allowed, and otherwise they are the geometric tags of the level, on every
\* level below the depth of the mesh, and empty on the level at that depth.
C25_EmptyAboveTagLevelIfCoarsening ==
  TagsComputed =>
    /\ \A p \in Procs : tag_level[p] = FinestTaggedLevel
    /\ \A p \in Procs, l \in 0..finest_level :
         l >= FinestTaggedLevel + 1 =>
           all_tags[p][l + 1] =
             (IF ~m_allow_coarsen /\ l < max_amr_depth THEN m_geom_tags[l + 1] ELSE {})

\* Without coarsening, level 1 lies above the finest tagged level and carries its
\* geometric tags, while process 1 holds no cell tag at all
C25_Witness ==
  /\ TagsComputed
  /\ ~m_allow_coarsen
  /\ FinestTaggedLevel = 0
  /\ LocalTagLevel(1, m_tags) = -1
  /\ finest_level >= 1
  /\ all_tags[1][2] # {}

\* C27: after set_geom_refinement_depth, m_geom_tag_depth <= max_amr_depth, for
\* every configured depth, so that the first mesh build asks for no level beyond
\* the depth of the mesh.
C27_GeomDepthWithinMesh ==
  /\ tpc # "parse" => m_geom_tag_depth <= max_amr_depth
  /\ (tpc \notin {"parse", "get_geom_tags", "setup_regrid"} /\ pre_regrid = <<>>) =>
       amr_args[2] <= Len(m_geom_tags)

\* run has passed its entry and stands before the first test of the loop condition
RunEntered == pc = "loop_test" /\ iter.n = 0

\* C31: the initial dt is taken from the time stepper on a fresh start only.  A
\* fresh run enters the loop at time 0 (the start time) and step 0 with the dt
\* of the time stepper; a restarted run enters the loop with the step, the time
\* and the dt of the checkpoint header (dt is StallFactor in every restart state),
\* dt not being replaced by a newly computed one.
C31_InitialDtOnFreshStartOnly ==
  RunEntered =>
    IF m_restart
    THEN m_step = iter.step /\ m_time = iter.time /\ m_dt = StallFactor
    ELSE m_step = 0 /\ m_time = 0 /\ init_dt = m_dt /\ ts_sync = <<0, 0, m_dt>>

\* C34: every regrid issued by the time loop has a well-formed window: 1 <= lmin
\* <= lmax and lmax is the finest level of the mesh, under both interval
\* policies and on every mesh, a mesh of level 0 alone included.
C34_WellFormedWindow ==
  \A i \in LoopRegrids :
    /\ 1 <= events[i][2]
    /\ events[i][2] <= events[i][3]
    /\ events[i][3] = iter.finest

\* C34 as amended: every regrid issued by the time loop has lmin >= 1 and lmax
\* equal to the finest level of the mesh; lmin <= lmax on a mesh of more than one
\* level, and on a mesh of level 0 alone the window is lmin = 1, lmax = 0.
C34_WindowAboveBase ==
  \A i \in LoopRegrids :
    /\ 1 <= events[i][2]
    /\ events[i][3] = iter.finest
    /\ IF iter.finest >= 1
       THEN events[i][2] <= events[i][3]
       ELSE events[i][2] = 1 /\ events[i][3] = 0

\* The loop regrids a mesh of level 0 alone that permits refinement, under the
\* recursive policy
C34_Witness ==
  /\ pc = "compute_dt"
  /\ iter.n = 2
  /\ iter.finest = 0
  /\ m_recursive_regrid
  /\ events = << <<"regrid", 1, 0>> >>

\* The advance events of the current iteration
AdvanceEvents == {i \in 1..Len(events) : iter.n >= 1 /\ events[i][1] = "advance"}

\* C35: after every completed step the step has grown by exactly 1, the time by
\* exactly the dt advance reported (whatever dt was asked for), dt is that
\* reported value, and synchronize_solver_times was last called with the
\* driver's new (step, time, dt); at the top of every iteration the step and the
\* time the time stepper was given are the driver's.
C35_StepBookkeeping ==
  /\ pc \in {"output", "loop_test"} =>
       \A i \in AdvanceEvents :
         /\ m_step = iter.step + 1
         /\ m_time = iter.time + events[i][3]
         /\ m_dt = events[i][3]
         /\ ts_sync = <<m_step, m_time, m_dt>>
  /\ pc \in {"loop_test", "regrid_test"} => ts_sync[1] = m_step /\ ts_sync[2] = m_time

\* The second step is completed with advance reporting another dt than it was asked for
C35_Witness ==
  /\ pc = "loop_test"
  /\ iter.n = 2
  /\ \E i \in AdvanceEvents : events[i][3] # events[i][2] /\ events[i][3] > 0
  /\ ts_sync = <<m_step, m_time, m_dt>>

\* The advance events of the iteration whose dt was shortened to end on the end
\* time and is below 1e-5 of the initial dt
ShortClampedAdvances == {i \in ClampedAdvances : BelowFraction(events[i][2], init_dt)}

ExitDeallocations == {i \in 1..Len(events) : events[i] = <<"ts_deallocate">>}

\* C36: for every finite max_steps and every sequence of answers of the time
\* stepper (dt = 0 and need_to_regrid always true included) run comes to an end:
\* it returns, or aborts on the stall test, or the process dies on a remainder by
\* a zero interval.  Every iteration adds exactly 1 to the step, so at most
\* max_steps minus the step at entry iterations are made, and a run that returns
\* has called TimeStepper.deallocate exactly once after the loop, also when
\* max_steps is 0 and no iteration is made.
C36_Termination ==
  /\ <>(pc \in {"done", "aborted", "crashed"})
  /\ [](iter.n <= Max(0, a_max_steps - advances.from))
  /\ [](pc \in {"loop_test", "aborted", "run_exit", "done"} => m_step = advances.from + iter.n)
  /\ [](Cardinality(ExitDeallocations) = (IF pc = "done" THEN 1 ELSE 0))
  /\ [](pc = "done" => events[Len(events)] = <<"ts_deallocate">>)

\* A run of max_steps iterations in which every dt is 0 and every iteration is
\* asked to regrid has returned
C36_Witness ==
  /\ pc = "done"
  /\ a_max_steps = MaxSteps
  /\ ~m_restart
  /\ iter.n = MaxSteps
  /\ m_time = 0
  /\ init_dt = 0
  /\ need_regrid
  /\ <<"advance", 0, 0>> \in {events[i] : i \in 1..Len(events)}
  /\ Cardinality(ExitDeallocations) = 1

\* C33: with allow_coarsening the geometric tags of a level are merged into the
\* tags of that level iff the level is at or below the finest tagged level of the
\* whole job, the maximum over all processes and not the level of the process
\* itself; every process merges on the same levels.  Stated for the levels that
\* have geometric tags, the levels below the depth of the mesh.
C33_FusionOnGlobalLevel ==
  (TagsComputed /\ m_allow_coarsen) =>
    /\ \A p \in Procs : tag_level[p] = FinestTaggedLevel
    /\ \A p \in Procs, l \in 0..Min(finest_level, Len(m_geom_tags) - 1) :
         all_tags[p][l + 1] =
           GatheredTags(p, m_tags, l) \cup
             (IF l <= FinestTaggedLevel THEN m_geom_tags[l + 1] ELSE {})

\* With coarsening allowed, process 1 holds no cell tag on level 1 and has the
\* geometric tags of level 1 in its tags, the finest tagged level being level 1
\* through a tag of another process
C33_Witness ==
  /\ TagsComputed
  /\ m_allow_coarsen
  /\ finest_level >= 1
  /\ FinestTaggedLevel = 1
  /\ LocalTagLevel(1, m_tags) < 1
  /\ GatheredTags(1, m_tags, 1) = {}
  /\ m_geom_tags[2] # {}
  /\ all_tags[1][2] = m_geom_tags[2]

\* C37: the tags that tag_cells returns are empty on every level at or above the
\* maximum AMR depth, under both policies for the geometric tags and whatever
\* the cell tagger has tagged; the tag computation comes to its end.
C37_EmptyAtMaxDepth ==
  /\ tpc # "crashed"
  /\ TagsComputed =>
       \A p \in Procs, l \in 0..finest_level :
         l >= max_amr_depth => all_tags[p][l + 1] = {}

\* C39: a driver without a cell tagger never goes through the null pointer: in
\* every regrid call, seeding or not, the tag computation reports no new tags on
\* every process, every process returns at the test on got_new_tags, and no
\* process reaches the call m_celltagger->regrid() that is made without a test.
C39_NullTaggerNeverUsed ==
  ~has_tagger =>
    \A p \in Procs :
      /\ rpc[p] # "crashed"
      /\ rpc[p] \in {"idle", "tag_cells", "allreduce", "tags_done"}
      /\ ~got_new_tags[p]
      /\ "tagger_regrid" \notin {stages[p][i] : i \in 1..Len(stages[p])}
      /\ \A k \in 1..Len(branches[p]) : branches[p][k] = "return"

\* Without a cell tagger every process has made its regrid call and returned
C39_Witness ==
  /\ ~has_tagger
  /\ \A p \in Procs :
       /\ ncalls[p] = MaxCalls
       /\ PastBranch(p)
       /\ rpc[p] = "idle"
       /\ nreduce[p] = MaxCalls

\* The output directories that do not exist
MissingDirs == {OutputDirs[i] : i \in 1..Len(OutputDirs)} \ made

\* C32: if rank 0 fails to create any one of the output directories, the job
\* aborts after the barrier: rank 0 never returns from parse_output_directory
\* after a failed mkdir or with a directory missing; and no process is past the
\* barrier before rank 0 has run all its commands.
C32_AbortOnAnyFailure ==
  /\ dpc[Rank0] = "returned" => (failed = {} /\ MissingDirs = {})
  /\ \A p \in Procs : dpc[p] \in {"test", "returned", "aborted"} => ncmd = Len(OutputDirs)

====
